---- MODULE Spec2Model ----
(***************************************************************************)
(* valtracker: the scouting pipeline of src/app/main.py.  For each series  *)
(* of a request the cached event files and the end-state document are      *)
(* normalised (src/backend/app/parsers.py), the bundles are collected in   *)
(* series_data, and the five reducers of src/backend/app/insights.py are   *)
(* run over the list.                                                      *)
(*                                                                         *)
(* Text is a sequence of one-character strings, so that lower-casing,      *)
(* substring search, sorting and joining are computed and not assumed.     *)
(* A decoded JSON value is a tagged record:                                *)
(*   [k |-> "null"]            None                                        *)
(*   [k |-> "str",  s |-> t]   a string t                                  *)
(*   [k |-> "num",  n |-> i]   a number i                                  *)
(*   [k |-> "list", l |-> q]   a list q                                    *)
(*   [k |-> "obj",  f |-> r]   a dict, r a function from field names       *)
(* A Python dict whose insertion order is read later is a sequence of      *)
(* entries; a dict produced by pandas' value_counts().to_dict() is a       *)
(* function from keys to counts (its key order is read by no reducer).     *)
(***************************************************************************)
EXTENDS Integers, Sequences, FiniteSets, TLC

VARIABLES
    pc,                      \* position in scout_valorant
    series_ids,              \* parsed_series_ids: the series of the request
    cache,                   \* the cache directory of the series being processed
    fetched,                 \* number of event lines downloaded so far
    events,                  \* result of EventParser.parse_events
    end_state,               \* result of EndStateParser.parse_end_state
    series_data,             \* the bundles, in request order
    maps_played,
    attack_site_preference,
    plant_sites,
    opening_duels,
    comp_frequency,
    query,                   \* the parameters of the request: series_ids, team_id
    calls,                   \* the calls scout_valorant has made, in order
    markdown_report,
    response                 \* the status and content returned to the client

vars ==
    <<pc, series_ids, cache, fetched, events, end_state, series_data, maps_played,
      attack_site_preference, plant_sites, opening_duels, comp_frequency,
      query, calls, markdown_report, response>>

\* ------------------------------------------------------------------ bounds

MaxSeries == 2

MaxLines == 3

MaxFiles == 1

MaxPlayers == 11

MaxComps == 6

MaxDeaths == 2

\* -------------------------------------------------------------------- text

UpperCase ==
    <<"A", "B", "C", "D", "E", "F", "G", "H", "I", "J", "K", "L", "M",
      "N", "O", "P", "Q", "R", "S", "T", "U", "V", "W", "X", "Y", "Z">>

LowerCase ==
    <<"a", "b", "c", "d", "e", "f", "g", "h", "i", "j", "k", "l", "m",
      "n", "o", "p", "q", "r", "s", "t", "u", "v", "w", "x", "y", "z">>

Digits == <<"0", "1", "2", "3", "4", "5", "6", "7", "8", "9">>

InSeq(q, c) == \E i \in 1..Len(q) : q[i] = c

IndexIn(q, c) == CHOOSE i \in 1..Len(q) : q[i] = c

\* the code point of a character (the characters the inputs use)
Ord(c) ==
    IF InSeq(UpperCase, c) THEN 64 + IndexIn(UpperCase, c)
    ELSE IF InSeq(LowerCase, c) THEN 96 + IndexIn(LowerCase, c)
    ELSE IF InSeq(Digits, c) THEN 47 + IndexIn(Digits, c)
    ELSE IF c = "+" THEN 43
    ELSE IF c = "_" THEN 95
    ELSE 32

LowerChar(c) == IF InSeq(UpperCase, c) THEN LowerCase[IndexIn(UpperCase, c)] ELSE c

\* str.lower()
lower(s) == [i \in 1..Len(s) |-> LowerChar(s[i])]

\* sub in s
contains(sub, s) ==
    \E i \in 0..(Len(s) - Len(sub)) : SubSeq(s, i + 1, i + Len(sub)) = sub

S_plant == <<"p", "l", "a", "n", "t">>

S_kill == <<"k", "i", "l", "l">>

S_plant_spike == <<"p", "l", "a", "n", "t", "_", "s", "p", "i", "k", "e">>

S_unknown == <<"u", "n", "k", "n", "o", "w", "n">>

\* -------------------------------------------------------------------- JSON

JNull == [k |-> "null"]

JS(t) == [k |-> "str", s |-> t]

JNum(i) == [k |-> "num", n |-> i]

JList(q) == [k |-> "list", l |-> q]

JObj(r) == [k |-> "obj", f |-> r]

IsDict(v) == v.k = "obj"

IsStr(v) == v.k = "str"

\* bool(v)
Truthy(v) ==
    CASE v.k = "null" -> FALSE
      [] v.k = "str" -> Len(v.s) > 0
      [] v.k = "num" -> v.n # 0
      [] v.k = "list" -> Len(v.l) > 0
      [] v.k = "obj" -> DOMAIN v.f # {}

\* a or b
Or(a, b) == IF Truthy(a) THEN a ELSE b

\* d.get(key, default), d a dict
get(d, key, default) == IF key \in DOMAIN d.f THEN d.f[key] ELSE default

\* whether v can be a dict key
Hashable(v) == v.k \notin {"list", "obj"}

\* DictAppend as d[key] = [v]: the last value of a key replaces the earlier ones
DictAppend_overwrite(d, key, v) ==
    IF \E i \in 1..Len(d) : d[i].key = key
    THEN [i \in 1..Len(d) |->
            IF d[i].key = key THEN [d[i] EXCEPT !.vals = <<v>>] ELSE d[i]]
    ELSE Append(d, [key |-> key, vals |-> <<v>>])

\* d[key].append(v), d a defaultdict(list) kept in insertion order
DictAppend(d, key, v) ==
    IF \E i \in 1..Len(d) : d[i].key = key
    THEN [i \in 1..Len(d) |->
            IF d[i].key = key THEN [d[i] EXCEPT !.vals = Append(@, v)] ELSE d[i]]
    ELSE Append(d, [key |-> key, vals |-> <<v>>])

\* ------------------------------------------------------------ EventParser

\* a line of a .jsonl file: blank, not decodable, or a decoded value
BlankLine == [k |-> "blank"]

BadLine == [k |-> "bad"]

NoPreview == [k |-> "empty"]

\* event.get("event_type", "").lower() raises unless the field is a string
TypeIndicatorRaises(event) ==
    ~IsDict(event) \/ ~IsStr(get(event, "event_type", JS(<<>>)))

TypeIndicator(event) == lower(get(event, "event_type", JS(<<>>)).s)

is_spike_plant(event) ==
    \/ contains(S_plant, TypeIndicator(event))
    \/ get(event, "type", JNull) = JS(S_plant_spike)

extract_plant_info(event) ==
    [map |-> Or(Or(get(event, "map", JNull), get(event, "map_name", JNull)),
                JS(S_unknown)),
     site |-> get(event, "site", JS(S_unknown)),
     round |-> get(event, "round_id", JNull),
     timestamp |-> get(event, "timestamp", JNull),
     round_time |-> get(event, "round_time", JNull),
     raw_event |-> event]

\* is_kill as the `elif` of the plant check: a plant record is never a kill
is_kill_exclusive(event) ==
    /\ ~is_spike_plant(event)
    /\ \/ contains(S_kill, TypeIndicator(event))
       \/ get(event, "type", JNull) = JS(S_kill)

is_kill(event) ==
    \/ contains(S_kill, TypeIndicator(event))
    \/ get(event, "type", JNull) = JS(S_kill)

extract_kill_info(event) ==
    [killer |-> Or(get(event, "killer", JNull), get(event, "killer_name", JNull)),
     victim |-> Or(get(event, "victim", JNull), get(event, "victim_name", JNull)),
     round |-> get(event, "round_id", JNull),
     timestamp |-> get(event, "timestamp", JNull),
     round_time |-> get(event, "round_time", JNull),
     raw_event |-> event]

\* The body of the loop over the lines of one file, for one line: the facts
\* after the line, and whether the line raised (which leaves the loop).
ProcessLine(acc, line, fname) ==
    IF line = BlankLine THEN [acc |-> acc, raised |-> FALSE]
    ELSE IF line = BadLine THEN [acc |-> acc, raised |-> TRUE]
    ELSE IF acc.schema_preview = NoPreview /\ ~IsDict(line)
    THEN [acc |-> acc, raised |-> TRUE]
    ELSE
      LET a1 == IF acc.schema_preview = NoPreview
                THEN [acc EXCEPT !.schema_preview =
                        [k |-> "preview", sample_keys |-> DOMAIN line.f, file |-> fname]]
                ELSE acc
      IN  IF TypeIndicatorRaises(line) THEN [acc |-> a1, raised |-> TRUE]
          ELSE
            LET a2 == IF is_spike_plant(line)
                      THEN [a1 EXCEPT !.spike_plants = Append(@, extract_plant_info(line))]
                      ELSE a1
                a3 == IF is_kill(line)
                      THEN [a2 EXCEPT !.kills = Append(@, extract_kill_info(line))]
                      ELSE a2
                round_id == get(line, "round_id", JS(S_unknown))
            IN  IF ~Hashable(round_id) THEN [acc |-> a3, raised |-> TRUE]
                ELSE [acc |-> [a3 EXCEPT !.events_by_round =
                                 DictAppend(@, round_id, line)],
                      raised |-> FALSE]

\* `for line in f` inside the try of one file: the first line that raises ends
\* the file, both except clauses only log.
RECURSIVE ParseFile(_, _, _, _)
ParseFile(acc, file, fname, i) ==
    IF i > Len(file) THEN acc
    ELSE LET r == ProcessLine(acc, file[i], fname)
         IN  IF r.raised THEN r.acc ELSE ParseFile(r.acc, file, fname, i + 1)

RECURSIVE ParseFiles(_, _, _)
ParseFiles(acc, files, n) ==
    IF n > Len(files) THEN acc
    ELSE ParseFiles(ParseFile(acc, files[n], n, 1), files, n + 1)

EmptyFacts ==
    [spike_plants |-> <<>>, kills |-> <<>>, events_by_round |-> <<>>,
     schema_preview |-> NoPreview]

\* EventParser.parse_events over the .jsonl files of the series' cache
parse_events(files) == ParseFiles(EmptyFacts, files, 1)

\* --------------------------------------------------------- EndStateParser

\* the end_state.json of a series: missing, not decodable, or a decoded value
AbsentDoc == [k |-> "absent"]

BadDoc == [k |-> "bad"]

S_maps == <<"m", "a", "p", "s">>

S_players == <<"p", "l", "a", "y", "e", "r", "s">>

\* what both except clauses and the missing-file branch return
EmptyEndState == [maps |-> <<>>, comps |-> <<>>, players |-> <<>>]

\* `key in data` raises for a value that is no container
InRaises(data) == data.k \in {"null", "num"}

\* `key in data`: key membership, element membership or substring
In(key, keytext, data) ==
    CASE data.k = "obj" -> key \in DOMAIN data.f
      [] data.k = "list" -> \E i \in 1..Len(data.l) : data.l[i] = JS(keytext)
      [] data.k = "str" -> contains(keytext, data.s)

\* the loop over data["players"]: players and comps after the first n entries,
\* raised when an entry is no dict or its team cannot key comps
RECURSIVE ExtractPlayers(_, _, _)
ExtractPlayers(acc, entries, n) ==
    IF acc.raised \/ n > Len(entries) THEN acc
    ELSE
      LET player == entries[n]
      IN  IF ~IsDict(player) THEN [acc EXCEPT !.raised = TRUE]
          ELSE
            LET player_info ==
                    [name |-> get(player, "name", JS(S_unknown)),
                     agent |-> Or(get(player, "agent", JNull),
                                  get(player, "selected_agent", JS(S_unknown))),
                     team |-> get(player, "team", JS(S_unknown))]
                team == get(player, "team", JS(S_unknown))
                agent == Or(get(player, "agent", JNull),
                            get(player, "selected_agent", JNull))
                a1 == [acc EXCEPT !.players = Append(@, player_info)]
            IN  IF ~Truthy(agent) THEN ExtractPlayers(a1, entries, n + 1)
                ELSE IF ~Hashable(team) THEN [a1 EXCEPT !.raised = TRUE]
                ELSE ExtractPlayers(
                        [a1 EXCEPT !.comps = DictAppend(@, team, agent)],
                        entries, n + 1)

\* `for player in v` raises for a value that cannot be iterated
IterRaises(v) == v.k \in {"null", "num"}

\* parse_end_state whose handler returns what had been extracted when the
\* extraction failed
parse_end_state_keep_partial(doc) ==
    IF doc = AbsentDoc \/ doc = BadDoc THEN EmptyEndState
    ELSE IF InRaises(doc) THEN EmptyEndState
    ELSE IF ~IsDict(doc) /\ (In("maps", S_maps, doc) \/ In("players", S_players, doc))
    THEN EmptyEndState
    ELSE
      LET maps == IF In("maps", S_maps, doc) THEN get(doc, "maps", JList(<<>>)).l
                  ELSE <<>>
          none == [players |-> <<>>, comps |-> <<>>, raised |-> FALSE]
          got == IF ~In("players", S_players, doc) THEN none
                 ELSE IF IterRaises(get(doc, "players", JList(<<>>)))
                 THEN [none EXCEPT !.raised = TRUE]
                 ELSE ExtractPlayers(none, get(doc, "players", JList(<<>>)).l, 1)
      IN  IF got.raised
          THEN [maps |-> maps, comps |-> got.comps, players |-> got.players]
          ELSE [maps |-> maps, comps |-> got.comps, players |-> got.players,
                raw_data |-> doc]

\* EndStateParser.parse_end_state over the end_state.json of the series' cache.
\* comps is the sequence of (team, agents) entries; the empty mapping and the
\* empty list the failure branches return are both the empty sequence.  The
\* "maps" field of a decoded document is a list; the "players" field is a list,
\* null or a number.
parse_end_state(doc) ==
    IF doc = AbsentDoc \/ doc = BadDoc THEN EmptyEndState
    ELSE IF InRaises(doc) THEN EmptyEndState
    ELSE IF ~IsDict(doc) /\ (In("maps", S_maps, doc) \/ In("players", S_players, doc))
    THEN EmptyEndState
    ELSE
      LET maps == IF In("maps", S_maps, doc) THEN get(doc, "maps", JList(<<>>)).l
                  ELSE <<>>
          none == [players |-> <<>>, comps |-> <<>>, raised |-> FALSE]
          got == IF ~In("players", S_players, doc) THEN none
                 ELSE IF IterRaises(get(doc, "players", JList(<<>>)))
                 THEN [none EXCEPT !.raised = TRUE]
                 ELSE ExtractPlayers(none, get(doc, "players", JList(<<>>)).l, 1)
      IN  IF got.raised THEN EmptyEndState
          ELSE [maps |-> maps, comps |-> got.comps, players |-> got.players,
                raw_data |-> doc]

\* ------------------------------------------------------- TacticalInsights

\* pandas: Series(q).value_counts().to_dict(); missing values (None) are
\* dropped, as value_counts does by default
ValueCounts(q) ==
    [x \in {q[i] : i \in 1..Len(q)} \ {JNull} |->
        Cardinality({i \in 1..Len(q) : q[i] = x})]

\* round(v / total * 100, 1), in tenths of a percent (round half to even)
Round1(v, total) ==
    LET q == (1000 * v) \div total
        r == (1000 * v) % total
    IN  IF 2 * r < total THEN q
        ELSE IF 2 * r > total THEN q + 1
        ELSE IF q % 2 = 0 THEN q ELSE q + 1

\* MapPoolName reading only the "name" field of a dict
MapPoolName_name_only(map_info) ==
    IF IsDict(map_info) THEN get(map_info, "name", JNull)
    ELSE IF IsStr(map_info) THEN map_info
    ELSE JS(S_unknown)

\* the name analyze_maps_played gives a map descriptor (None when a dict has
\* neither "name" nor "map_name")
MapPoolName(map_info) ==
    IF IsDict(map_info)
    THEN Or(get(map_info, "name", JNull), get(map_info, "map_name", JNull))
    ELSE IF IsStr(map_info) THEN map_info
    ELSE JS(S_unknown)

\* the list `maps` of analyze_maps_played after the descriptors n.. of one series
RECURSIVE MapPoolSeries(_, _, _)
MapPoolSeries(maps, series_maps, n) ==
    IF n > Len(series_maps) THEN maps
    ELSE LET map_name == MapPoolName(series_maps[n])
         IN  MapPoolSeries(IF Truthy(map_name) THEN Append(maps, map_name) ELSE maps,
                           series_maps, n + 1)

RECURSIVE MapPoolList(_, _, _)
MapPoolList(maps, sd, n) ==
    IF n > Len(sd) THEN maps
    ELSE MapPoolList(MapPoolSeries(maps, sd[n].end_state.maps, 1), sd, n + 1)

analyze_maps_played(sd) ==
    LET maps == MapPoolList(<<>>, sd, 1)
    IN  [maps |-> ValueCounts(maps), total |-> Len(maps)]

\* plants_by_map[plant["map"]].append(plant["site"]) over the plants of a series
RECURSIVE PlantSitesSeries(_, _, _)
PlantSitesSeries(by_map, spike_plants, n) ==
    IF n > Len(spike_plants) THEN by_map
    ELSE PlantSitesSeries(
            DictAppend(by_map, spike_plants[n].map, spike_plants[n].site),
            spike_plants, n + 1)

RECURSIVE PlantSitesByMap(_, _, _)
PlantSitesByMap(by_map, sd, n) ==
    IF n > Len(sd) THEN by_map
    ELSE PlantSitesByMap(PlantSitesSeries(by_map, sd[n].events.spike_plants, 1), sd, n + 1)

\* one entry per map, in the order the maps were first seen
analyze_plant_sites(sd) ==
    LET by_map == PlantSitesByMap(<<>>, sd, 1)
    IN  [i \in 1..Len(by_map) |->
            LET sites == by_map[i].vals
                site_counts == ValueCounts(sites)
                total == Len(sites)
            IN  [map |-> by_map[i].key,
                 counts |-> site_counts,
                 percentages |->
                     [s \in DOMAIN site_counts |-> Round1(site_counts[s], total)],
                 total |-> total]]

RECURSIVE AttackSitesSeries(_, _, _)
AttackSitesSeries(by_map, spike_plants, n) ==
    IF n > Len(spike_plants) THEN by_map
    ELSE AttackSitesSeries(
            DictAppend(by_map, spike_plants[n].map, spike_plants[n].site),
            spike_plants, n + 1)

RECURSIVE AttackSitesByMap(_, _, _)
AttackSitesByMap(by_map, sd, n) ==
    IF n > Len(sd) THEN by_map
    ELSE AttackSitesByMap(AttackSitesSeries(by_map, sd[n].events.spike_plants, 1), sd, n + 1)

\* the attack-site view leaving out the plants whose site is not known
IsKnownSite(s) == s # JS(S_unknown)

analyze_attack_site_preference_known_sites(sd) ==
    LET by_map == AttackSitesByMap(<<>>, sd, 1)
    IN  [i \in 1..Len(by_map) |->
            LET sites == SelectSeq(by_map[i].vals, IsKnownSite)
                site_counts == ValueCounts(sites)
                total == Len(sites)
            IN  [map |-> by_map[i].key,
                 counts |-> site_counts,
                 percentages |->
                     [s \in DOMAIN site_counts |-> Round1(site_counts[s], total)],
                 total |-> total]]

analyze_attack_site_preference(sd) ==
    LET by_map == AttackSitesByMap(<<>>, sd, 1)
    IN  [i \in 1..Len(by_map) |->
            LET sites == by_map[i].vals
                site_counts == ValueCounts(sites)
                total == Len(sites)
            IN  [map |-> by_map[i].key,
                 counts |-> site_counts,
                 percentages |->
                     [s \in DOMAIN site_counts |-> Round1(site_counts[s], total)],
                 total |-> total]]

\* player_stats[player][field] += 1, player_stats a defaultdict kept in
\* insertion order
Bump(stats, player, field) ==
    LET st == IF \E i \in 1..Len(stats) : stats[i].player = player
              THEN stats
              ELSE Append(stats, [player |-> player, first_kills |-> 0,
                                  first_deaths |-> 0])
    IN  [i \in 1..Len(st) |->
            IF st[i].player # player THEN st[i]
            ELSE IF field = "first_kills"
                 THEN [st[i] EXCEPT !.first_kills = @ + 1]
                 ELSE [st[i] EXCEPT !.first_deaths = @ + 1]]

RECURSIVE DuelStatsSeries(_, _, _)
DuelStatsSeries(stats, kills, n) ==
    IF n > Len(kills) THEN stats
    ELSE
      LET killer == kills[n].killer
          victim == kills[n].victim
          s1 == IF Truthy(killer) THEN Bump(stats, killer, "first_kills") ELSE stats
          s2 == IF Truthy(victim) THEN Bump(s1, victim, "first_deaths") ELSE s1
      IN  DuelStatsSeries(s2, kills, n + 1)

RECURSIVE DuelStats(_, _, _)
DuelStats(stats, sd, n) ==
    IF n > Len(sd) THEN stats
    ELSE DuelStats(DuelStatsSeries(stats, sd[n].events.kills, 1), sd, n + 1)

\* DuelRows without the filter on the literal "unknown"
RECURSIVE DuelRows_keep_unknown(_, _)
DuelRows_keep_unknown(stats, n) ==
    IF n > Len(stats) THEN <<>>
    ELSE
      LET st == stats[n]
          row == [player |-> st.player, first_kills |-> st.first_kills,
                  first_deaths |-> st.first_deaths,
                  net |-> st.first_kills - st.first_deaths]
      IN  <<row>> \o DuelRows_keep_unknown(stats, n + 1)

\* the rows of `result`, in player_stats order, without "unknown"
RECURSIVE DuelRows(_, _)
DuelRows(stats, n) ==
    IF n > Len(stats) THEN <<>>
    ELSE
      LET st == stats[n]
          row == [player |-> st.player, first_kills |-> st.first_kills,
                  first_deaths |-> st.first_deaths,
                  net |-> st.first_kills - st.first_deaths]
      IN  IF Truthy(st.player) /\ st.player # JS(S_unknown)
          THEN <<row>> \o DuelRows(stats, n + 1)
          ELSE DuelRows(stats, n + 1)

\* InsertByNet placing a row before the rows of equal net (the order an
\* ascending sort that is then reversed gives)
InsertByNet_ties_reversed(sorted, row) ==
    LET before == Cardinality({i \in 1..Len(sorted) : sorted[i].net > row.net})
    IN  SubSeq(sorted, 1, before) \o <<row>> \o SubSeq(sorted, before + 1, Len(sorted))

\* sorted(rows, key=net, reverse=True): a stable sort, so rows of equal net
\* keep their order; row is placed after the rows whose net is not smaller
InsertByNet(sorted, row) ==
    LET before == Cardinality({i \in 1..Len(sorted) : sorted[i].net >= row.net})
    IN  SubSeq(sorted, 1, before) \o <<row>> \o SubSeq(sorted, before + 1, Len(sorted))

RECURSIVE SortByNet(_, _, _)
SortByNet(sorted, rows, n) ==
    IF n > Len(rows) THEN sorted
    ELSE SortByNet(InsertByNet(sorted, rows[n]), rows, n + 1)

\* the table, as the sequence of its entries in key order
analyze_opening_duels(sd) == SortByNet(<<>>, DuelRows(DuelStats(<<>>, sd, 1), 1), 1)

\* lexicographic order of two texts by code point: a < b
RECURSIVE TextLess(_, _)
TextLess(a, b) ==
    IF Len(b) = 0 THEN FALSE
    ELSE IF Len(a) = 0 THEN TRUE
    ELSE IF Ord(Head(a)) # Ord(Head(b)) THEN Ord(Head(a)) < Ord(Head(b))
    ELSE TextLess(Tail(a), Tail(b))

\* sorted(agents), agents a list of strings
InsertAgent(sorted, agent) ==
    LET before == Cardinality({i \in 1..Len(sorted) : ~TextLess(agent.s, sorted[i].s)})
    IN  SubSeq(sorted, 1, before) \o <<agent>> \o SubSeq(sorted, before + 1, Len(sorted))

RECURSIVE SortAgents(_, _, _)
SortAgents(sorted, agents, n) ==
    IF n > Len(agents) THEN sorted
    ELSE SortAgents(InsertAgent(sorted, agents[n]), agents, n + 1)

\* "+".join(names)
RECURSIVE JoinPlus(_)
JoinPlus(names) ==
    IF Len(names) = 0 THEN <<>>
    ELSE IF Len(names) = 1 THEN names[1].s
    ELSE names[1].s \o <<"+">> \o JoinPlus(Tail(names))

\* the signature joining the agents in the order of the players
CompSignature_unsorted(agents) == JS(JoinPlus(agents))

\* comp_sig = "+".join(sorted(agents))
CompSignature(agents) == JS(JoinPlus(SortAgents(<<>>, agents, 1)))

\* the loop over the teams of one series for one map
RECURSIVE CompTeams(_, _, _, _)
CompTeams(by_map, map_name, comps, n) ==
    IF n > Len(comps) THEN by_map
    ELSE CompTeams(
            IF Len(comps[n].vals) > 0
            THEN DictAppend(by_map, map_name, CompSignature(comps[n].vals))
            ELSE by_map,
            map_name, comps, n + 1)

\* CompMaps skipping a descriptor without a name, as the map pool does
RECURSIVE CompMaps_named_only(_, _, _, _)
CompMaps_named_only(by_map, series_maps, comps, n) ==
    IF n > Len(series_maps) THEN by_map
    ELSE
      LET map_info == series_maps[n]
          map_name == IF IsDict(map_info) THEN get(map_info, "name", JNull) ELSE map_info
      IN  CompMaps_named_only(
            IF Truthy(map_name) THEN CompTeams(by_map, map_name, comps, 1) ELSE by_map,
            series_maps, comps, n + 1)

RECURSIVE CompMaps(_, _, _, _)
CompMaps(by_map, series_maps, comps, n) ==
    IF n > Len(series_maps) THEN by_map
    ELSE
      LET map_info == series_maps[n]
          map_name == IF IsDict(map_info) THEN get(map_info, "name", JNull) ELSE map_info
      IN  CompMaps(CompTeams(by_map, map_name, comps, 1), series_maps, comps, n + 1)

RECURSIVE CompsByMap(_, _, _)
CompsByMap(by_map, sd, n) ==
    IF n > Len(sd) THEN by_map
    ELSE
      LET es == sd[n].end_state
      IN  CompsByMap(
            IF Len(es.maps) > 0 /\ Len(es.comps) > 0
            THEN CompMaps(by_map, es.maps, es.comps, 1)
            ELSE by_map,
            sd, n + 1)

analyze_comp_frequency(sd) ==
    LET by_map == CompsByMap(<<>>, sd, 1)
    IN  [by_map |->
            [i \in 1..Len(by_map) |->
                [map |-> by_map[i].key,
                 compositions |-> ValueCounts(by_map[i].vals),
                 total |-> Len(by_map[i].vals)]],
         insufficient_data |-> ~(\E i \in 1..Len(by_map) : Len(by_map[i].vals) > 0)]

\* -------------------------------------------------------- ReportGenerator

\* the texts of the report
R_Title ==
    <<"#", " ", "V", "A", "L", "O", "R", "A", "N", "T", " ", "S", "c", "o", "u", "t", "i",
      "n", "g", " ", "R", "e", "p", "o", "r", "t">>

R_Generated ==
    <<"*", "*", "G", "e", "n", "e", "r", "a", "t", "e", "d", ":", "*", "*", " ">>

R_SeriesAnalyzed ==
    <<"*", "*", "S", "e", "r", "i", "e", "s", " ", "A", "n", "a", "l", "y", "z", "e", "d",
      ":", "*", "*", " ">>

R_MapPool ==
    <<"#", "#", " ", "M", "a", "p", " ", "P", "o", "o", "l">>

R_NoMapData ==
    <<"*", "N", "o", " ", "m", "a", "p", " ", "d", "a", "t", "a", " ", "a", "v", "a", "i",
      "l", "a", "b", "l", "e", "*">>

R_MapPoolHead ==
    <<"|", " ", "M", "a", "p", " ", "|", " ", "A", "p", "p", "e", "a", "r", "a", "n", "c",
      "e", "s", " ", "|">>

R_MapPoolRule ==
    <<"|", "-", "-", "-", "-", "-", "|", "-", "-", "-", "-", "-", "-", "-", "-", "-", "-",
      "-", "-", "-", "|">>

R_AttackSites ==
    <<"#", "#", " ", "A", "t", "t", "a", "c", "k", " ", "S", "i", "t", "e", " ", "P", "r",
      "e", "f", "e", "r", "e", "n", "c", "e">>

R_NoSitePreference ==
    <<"*", "N", "o", " ", "s", "i", "t", "e", " ", "p", "r", "e", "f", "e", "r", "e", "n",
      "c", "e", " ", "d", "a", "t", "a", " ", "a", "v", "a", "i", "l", "a", "b", "l", "e",
      "*">>

R_AttackSitesHead ==
    <<"|", " ", "S", "i", "t", "e", " ", "|", " ", "C", "o", "u", "n", "t", " ", "|", " ",
      "P", "e", "r", "c", "e", "n", "t", "a", "g", "e", " ", "|">>

R_AttackSitesRule ==
    <<"|", "-", "-", "-", "-", "-", "-", "|", "-", "-", "-", "-", "-", "-", "-", "|", "-",
      "-", "-", "-", "-", "-", "-", "-", "-", "-", "-", "|">>

R_PlantSites ==
    <<"#", "#", " ", "S", "p", "i", "k", "e", " ", "P", "l", "a", "n", "t", " ", "S", "i",
      "t", "e", "s">>

R_NoPlantData ==
    <<"*", "N", "o", " ", "s", "p", "i", "k", "e", " ", "p", "l", "a", "n", "t", " ", "d",
      "a", "t", "a", " ", "a", "v", "a", "i", "l", "a", "b", "l", "e", "*">>

R_PlantSitesHead ==
    <<"|", " ", "S", "i", "t", "e", " ", "|", " ", "P", "l", "a", "n", "t", "s", " ", "|">>

R_PlantSitesRule ==
    <<"|", "-", "-", "-", "-", "-", "-", "|", "-", "-", "-", "-", "-", "-", "-", "-", "|">>

R_OpeningDuels ==
    <<"#", "#", " ", "O", "p", "e", "n", "i", "n", "g", " ", "D", "u", "e", "l", " ", "L",
      "e", "a", "d", "e", "r", "s">>

R_NoDuelData ==
    <<"*", "N", "o", " ", "o", "p", "e", "n", "i", "n", "g", " ", "d", "u", "e", "l", " ",
      "d", "a", "t", "a", " ", "a", "v", "a", "i", "l", "a", "b", "l", "e", "*">>

R_OpeningDuelsHead ==
    <<"|", " ", "P", "l", "a", "y", "e", "r", " ", "|", " ", "K", "i", "l", "l", "s", " ",
      "|", " ", "D", "e", "a", "t", "h", "s", " ", "|", " ", "N", "e", "t", " ", "|">>

R_OpeningDuelsRule ==
    <<"|", "-", "-", "-", "-", "-", "-", "-", "-", "|", "-", "-", "-", "-", "-", "-", "-",
      "|", "-", "-", "-", "-", "-", "-", "-", "-", "|", "-", "-", "-", "-", "-", "|">>

R_Comps ==
    <<"#", "#", " ", "A", "g", "e", "n", "t", " ", "C", "o", "m", "p", "o", "s", "i", "t",
      "i", "o", "n", "s">>

R_InsufficientComps ==
    <<"*", "I", "n", "s", "u", "f", "f", "i", "c", "i", "e", "n", "t", " ", "a", "g", "e",
      "n", "t", " ", "c", "o", "m", "p", "o", "s", "i", "t", "i", "o", "n", " ", "d", "a",
      "t", "a", " ", "i", "n", " ", "a", "v", "a", "i", "l", "a", "b", "l", "e", " ", "f",
      "i", "l", "e", "s", "*">>

R_NoCompData ==
    <<"*", "N", "o", " ", "c", "o", "m", "p", "o", "s", "i", "t", "i", "o", "n", " ", "d",
      "a", "t", "a", " ", "a", "v", "a", "i", "l", "a", "b", "l", "e", "*">>

R_Summary ==
    <<"#", "#", " ", "T", "L", ";", "D", "R", " ", "-", " ", "K", "e", "y", " ", "T", "a",
      "k", "e", "a", "w", "a", "y", "s">>

R_MostPlayed ==
    <<"-", " ", "*", "*", "M", "o", "s", "t", " ", "p", "l", "a", "y", "e", "d", " ", "m",
      "a", "p", ":", "*", "*", " ">>

R_Times ==
    <<" ", "t", "i", "m", "e", "s", ")">>

R_PrimarySite ==
    <<"-", " ", "*", "*", "P", "r", "i", "m", "a", "r", "y", " ", "s", "i", "t", "e", " ",
      "(">>

R_PrimarySiteEnd ==
    <<")", ":", "*", "*", " ">>

R_Strongest ==
    <<"-", " ", "*", "*", "S", "t", "r", "o", "n", "g", "e", "s", "t", " ", "d", "u", "e",
      "l", " ", "p", "l", "a", "y", "e", "r", ":", "*", "*", " ">>

R_Net ==
    <<" ", "(", "N", "e", "t", ":", " ">>

R_Sub ==
    <<"#", "#", "#", " ">>

R_Bar ==
    <<"|", " ">>

R_Mid ==
    <<" ", "|", " ">>

R_End ==
    <<" ", "|">>

R_PercentEnd ==
    <<"%", " ", "|">>

R_Bullet ==
    <<"-", " ", "*", "*">>

R_BulletMid ==
    <<"*", "*", " ", "(">>

R_BulletEnd ==
    <<"x", ")">>

R_None ==
    <<"N", "o", "n", "e">>

R_CommaSpace ==
    <<",", " ">>

R_Stamp ==
    <<"2", "0", "2", "4", "-", "0", "1", "-", "0", "1", " ", "0", "0", ":", "0", "0", ":",
      "0", "0", " ", "U", "T", "C">>

\* the numbers of rows the report cuts its lists to
TopDuels == 10

TopComps == 5

\* str(n), n a natural number
RECURSIVE Dec(_)
Dec(n) == IF n < 10 THEN <<Digits[n + 1]>> ELSE Dec(n \div 10) \o <<Digits[(n % 10) + 1]>>

\* f"{n:+d}"
SignedDec(n) == IF n < 0 THEN <<"-">> \o Dec(-n) ELSE <<"+">> \o Dec(n)

\* f"{x}", x a float rounded to one decimal and held in tenths
FloatStr(t) == Dec(t \div 10) \o <<".">> \o Dec(t % 10)

\* f"{v}", v a key of a view
Str(v) ==
    CASE v.k = "str" -> v.s
      [] v.k = "num" -> IF v.n < 0 THEN <<"-">> \o Dec(-v.n) ELSE Dec(v.n)
      [] v.k = "null" -> R_None

\* sep.join(texts)
RECURSIVE Join(_, _)
Join(sep, texts) ==
    IF Len(texts) = 0 THEN <<>>
    ELSE IF Len(texts) = 1 THEN texts[1]
    ELSE texts[1] \o sep \o Join(sep, Tail(texts))

\* The orders in which a dict made by value_counts().to_dict() can hold its
\* keys: by count descending, keys of equal count in an order the library
\* decides.
RECURSIVE DictOrdersFrom(_, _)
DictOrdersFrom(counts, keys) ==
    IF keys = {} THEN {<<>>}
    ELSE UNION {{<<k>> \o q : q \in DictOrdersFrom(counts, keys \ {k})} :
                    k \in {x \in keys : \A y \in keys : counts[y] <= counts[x]}}

DictOrders(counts) == DictOrdersFrom(counts, DOMAIN counts)

\* one order for each of the dicts cs[1], cs[2], ...
DictOrdersOf(cs) ==
    {f \in [1..Len(cs) -> UNION {DictOrders(cs[i]) : i \in 1..Len(cs)}] :
        \A i \in 1..Len(cs) : f[i] \in DictOrders(cs[i])}

\* counts.items() of a dict held in the order q
Items(counts, q) == [i \in 1..Len(q) |-> [key |-> q[i], count |-> counts[q[i]]]]

\* sorted(items, key=lambda x: x[1], reverse=True): stable, so items of equal
\* count keep their order
InsertByCount(sorted, item) ==
    LET before == Cardinality({i \in 1..Len(sorted) : sorted[i].count >= item.count})
    IN  SubSeq(sorted, 1, before) \o <<item>> \o SubSeq(sorted, before + 1, Len(sorted))

RECURSIVE SortByCount(_, _, _)
SortByCount(sorted, items, n) ==
    IF n > Len(items) THEN sorted
    ELSE SortByCount(InsertByCount(sorted, items[n]), items, n + 1)

\* max(items, key=lambda x: x[1]): the first item of the largest count
MaxByCount(items) ==
    items[CHOOSE i \in 1..Len(items) :
            /\ \A j \in 1..Len(items) : items[j].count <= items[i].count
            /\ \A j \in 1..(i - 1) : items[j].count < items[i].count]

\* a < b for two keys of one kind
KeyLess(a, b) == IF a.k = "str" THEN TextLess(a.s, b.s) ELSE a.n < b.n

\* sorted(view.items()) raises when two keys cannot be compared: keys of
\* different kinds (a string, a number, None)
SortedRaises(view) == \E i, j \in 1..Len(view) : view[i].map.k # view[j].map.k

\* sorted(view.items()): the entries by key ascending (keys are distinct)
InsertByKey(sorted, entry) ==
    LET before == Cardinality({i \in 1..Len(sorted) : KeyLess(sorted[i].map, entry.map)})
    IN  SubSeq(sorted, 1, before) \o <<entry>> \o SubSeq(sorted, before + 1, Len(sorted))

RECURSIVE SortedByKey(_, _, _)
SortedByKey(sorted, view, n) ==
    IF n > Len(view) THEN sorted
    ELSE SortedByKey(InsertByKey(sorted, view[n]), view, n + 1)

\* a site view (a sequence of entries in insertion order) with the items of
\* each entry in the order orders gives its counts
SiteItems(view, orders) ==
    [i \in 1..Len(view) |->
        [map |-> view[i].map, items |-> Items(view[i].counts, orders[i]),
         percentages |-> view[i].percentages]]

CompItems(by_map, orders) ==
    [i \in 1..Len(by_map) |->
        [map |-> by_map[i].map, items |-> Items(by_map[i].compositions, orders[i])]]

SiteCounts(view) == [i \in 1..Len(view) |-> view[i].counts]

CompCounts(by_map) == [i \in 1..Len(by_map) |-> by_map[i].compositions]

MapPoolRow(item) == R_Bar \o Str(item.key) \o R_Mid \o Dec(item.count) \o R_End

\* _section_map_pool; items the items of maps_played["maps"]
section_map_pool(items) ==
    IF Len(items) = 0 THEN <<R_MapPool, <<>>, R_NoMapData>>
    ELSE
      LET rows == SortByCount(<<>>, items, 1)
      IN  <<R_MapPool, <<>>, R_MapPoolHead, R_MapPoolRule>>
            \o [i \in 1..Len(rows) |-> MapPoolRow(rows[i])]
            \o << <<>> >>

AttackSiteRow(item, percentages) ==
    R_Bar \o Str(item.key) \o R_Mid \o Dec(item.count) \o R_Mid
        \o FloatStr(percentages[item.key]) \o R_PercentEnd

RECURSIVE AttackSiteSubsections(_, _)
AttackSiteSubsections(entries, n) ==
    IF n > Len(entries) THEN <<>>
    ELSE
      LET rows == SortByCount(<<>>, entries[n].items, 1)
      IN  <<R_Sub \o Str(entries[n].map), <<>>, R_AttackSitesHead, R_AttackSitesRule>>
            \o [i \in 1..Len(rows) |-> AttackSiteRow(rows[i], entries[n].percentages)]
            \o << <<>> >>
            \o AttackSiteSubsections(entries, n + 1)

\* _section_attack_sites; view the entries of attack_site_preference in
\* insertion order
section_attack_sites(view) ==
    IF Len(view) = 0 THEN <<R_AttackSites, <<>>, R_NoSitePreference, <<>>>>
    ELSE <<R_AttackSites, <<>>>> \o AttackSiteSubsections(SortedByKey(<<>>, view, 1), 1)

PlantSiteRow(item) == R_Bar \o Str(item.key) \o R_Mid \o Dec(item.count) \o R_End

RECURSIVE PlantSiteSubsections(_, _)
PlantSiteSubsections(entries, n) ==
    IF n > Len(entries) THEN <<>>
    ELSE
      LET rows == SortByCount(<<>>, entries[n].items, 1)
      IN  <<R_Sub \o Str(entries[n].map), <<>>, R_PlantSitesHead, R_PlantSitesRule>>
            \o [i \in 1..Len(rows) |-> PlantSiteRow(rows[i])]
            \o << <<>> >>
            \o PlantSiteSubsections(entries, n + 1)

\* _section_plant_sites
section_plant_sites(view) ==
    IF Len(view) = 0 THEN <<R_PlantSites, <<>>, R_NoPlantData, <<>>>>
    ELSE <<R_PlantSites, <<>>>> \o PlantSiteSubsections(SortedByKey(<<>>, view, 1), 1)

Min(a, b) == IF a < b THEN a ELSE b

OpeningDuelRow(row) ==
    R_Bar \o Str(row.player) \o R_Mid \o Dec(row.first_kills) \o R_Mid
        \o Dec(row.first_deaths) \o R_Mid \o SignedDec(row.net) \o R_End

\* _section_opening_duels keeping every row of the table
section_opening_duels_all_rows(table) ==
    IF Len(table) = 0 THEN <<R_OpeningDuels, <<>>, R_NoDuelData, <<>>>>
    ELSE
      <<R_OpeningDuels, <<>>, R_OpeningDuelsHead, R_OpeningDuelsRule>>
        \o [i \in 1..Len(table) |-> OpeningDuelRow(table[i])]
        \o << <<>> >>

\* _section_opening_duels; table the entries of opening_duels in key order
section_opening_duels(table) ==
    IF Len(table) = 0 THEN <<R_OpeningDuels, <<>>, R_NoDuelData, <<>>>>
    ELSE
      LET rows == SubSeq(table, 1, Min(TopDuels, Len(table)))
      IN  <<R_OpeningDuels, <<>>, R_OpeningDuelsHead, R_OpeningDuelsRule>>
            \o [i \in 1..Len(rows) |-> OpeningDuelRow(rows[i])]
            \o << <<>> >>

CompRow(item) == R_Bullet \o Str(item.key) \o R_BulletMid \o Dec(item.count) \o R_BulletEnd

RECURSIVE CompSubsections(_, _)
CompSubsections(entries, n) ==
    IF n > Len(entries) THEN <<>>
    ELSE
      LET sorted == SortByCount(<<>>, entries[n].items, 1)
          rows == SubSeq(sorted, 1, Min(TopComps, Len(sorted)))
      IN  <<R_Sub \o Str(entries[n].map), <<>>>>
            \o [i \in 1..Len(rows) |-> CompRow(rows[i])]
            \o << <<>> >>
            \o CompSubsections(entries, n + 1)

\* _section_comps; by_map the entries of comp_frequency["by_map"] in insertion
\* order
section_comps(insufficient, by_map) ==
    IF insufficient THEN <<R_Comps, <<>>, R_InsufficientComps, <<>>>>
    ELSE IF Len(by_map) = 0 THEN <<R_Comps, <<>>, R_NoCompData, <<>>>>
    ELSE <<R_Comps, <<>>>> \o CompSubsections(SortedByKey(<<>>, by_map, 1), 1)

\* _section_summary; items of maps_played["maps"], the attack-site view in
\* insertion order, the duel table in key order
section_summary(items, view, table) ==
    LET most_played ==
            IF Len(items) = 0 THEN <<>>
            ELSE << R_MostPlayed \o Str(MaxByCount(items).key) \o <<" ", "(">>
                      \o Dec(MaxByCount(items).count) \o R_Times >>
        first == SubSeq(view, 1, Min(1, Len(view)))
        primary ==
            IF Len(first) = 0 \/ Len(first[1].items) = 0 THEN <<>>
            ELSE << R_PrimarySite \o Str(first[1].map) \o R_PrimarySiteEnd
                      \o Str(MaxByCount(first[1].items).key) >>
        top ==
            IF Len(table) = 0 THEN <<>>
            ELSE << R_Strongest \o Str(table[1].player) \o R_Net
                      \o SignedDec(table[1].net) \o <<")">> >>
    IN  <<R_Summary, <<>>>> \o most_played \o primary \o top \o << <<>> >>

\* generate_markdown_report raises when a sorted() of its sections does
ReportRaises(attack, plants, by_map, insufficient) ==
    \/ SortedRaises(attack)
    \/ SortedRaises(plants)
    \/ ~insufficient /\ SortedRaises(by_map)

\* generate_markdown_report.  ids are the series of the request, stamp the
\* clock reading, the other arguments the views with their items in dict order.
\* The report, report_lines joined by "\n", is held as the sequence of its
\* lines (no text of the inputs holds a line break).
generate_markdown_report(ids, stamp, items, attack, plants, table, insufficient, by_map) ==
    <<R_Title, R_Generated \o stamp, R_SeriesAnalyzed \o Join(R_CommaSpace, ids), <<>>>>
        \o section_map_pool(items)
        \o section_attack_sites(attack)
        \o section_plant_sites(plants)
        \o section_opening_duels(table)
        \o section_comps(insufficient, by_map)
        \o section_summary(items, attack, table)

\* ------------------------------------------------- the modes of a request

\* str.strip() removes these from both ends of a text
Whitespace == {" ", "\t", "\n", "\r"}

\* s.strip()
RECURSIVE Strip(_)
Strip(s) ==
    IF Len(s) = 0 THEN s
    ELSE IF Head(s) \in Whitespace THEN Strip(Tail(s))
    ELSE IF s[Len(s)] \in Whitespace THEN Strip(SubSeq(s, 1, Len(s) - 1))
    ELSE s

\* s.split(sep), sep one character: the texts between the separators, of
\* which there is always one
RECURSIVE Split(_, _)
Split(s, sep) ==
    IF ~InSeq(s, sep) THEN <<s>>
    ELSE LET i == CHOOSE j \in 1..Len(s) : s[j] = sep /\ \A h \in 1..(j - 1) : s[h] # sep
         IN  <<SubSeq(s, 1, i - 1)>> \o Split(SubSeq(s, i + 1, Len(s)), sep)

\* the texts of get_series_ids_for_team
M_NotImplemented ==
    <<"N", "o", "t", " ", "I", "m", "p", "l", "e", "m", "e", "n", "t", "e", "d">>

M_Message ==
    <<"F", "e", "t", "c", "h", "i", "n", "g", " ", "s", "e", "r", "i", "e", "s", " ", "I",
      "D", "s", " ", "v", "i", "a", " ", "t", "e", "a", "m", "_", "i", "d", " ", "+", " ",
      "l", "a", "s", "t", "_", "n", " ", "r", "e", "q", "u", "i", "r", "e", "s", " ", "a",
      "c", "c", "e", "s", "s", " ", "t", "o", " ", "t", "h", "e", " ", "C", "e", "n", "t",
      "r", "a", "l", " ", "D", "a", "t", "a", " ", "F", "e", "e", "d", " ", "G", "r", "a",
      "p", "h", "Q", "L", " ", "Q", "u", "e", "r", "y", " ", "A", "P", "I", ",", " ", "w",
      "h", "i", "c", "h", " ", "i", "s", " ", "c", "u", "r", "r", "e", "n", "t", "l", "y",
      " ", "u", "n", "a", "v", "a", "i", "l", "a", "b", "l", "e", ".", " ", "P", "l", "e",
      "a", "s", "e", " ", "p", "r", "o", "v", "i", "d", "e", " ", "e", "x", "p", "l", "i",
      "c", "i", "t", " ", "s", "e", "r", "i", "e", "s", "_", "i", "d", "s", " ", "i", "n",
      "s", "t", "e", "a", "d", ".", " ", "O", "n", "c", "e", " ", "t", "h", "e", " ", "Q",
      "u", "e", "r", "y", " ", "A", "P", "I", " ", "i", "s", " ", "e", "n", "a", "b", "l",
      "e", "d", ",", " ", "t", "h", "i", "s", " ", "e", "n", "d", "p", "o", "i", "n", "t",
      " ", "w", "i", "l", "l", " ", "b", "e", " ", "i", "m", "p", "l", "e", "m", "e", "n",
      "t", "e", "d", ".">>

M_Workaround ==
    <<"U", "s", "e", " ", "G", "E", "T", " ", "/", "s", "c", "o", "u", "t", "/", "v", "a",
      "l", "o", "r", "a", "n", "t", "?", "s", "e", "r", "i", "e", "s", "_", "i", "d", "s",
      "=", "I", "D", "1", ",", "I", "D", "2", ",", "I", "D", "3", " ", "i", "n", "s", "t",
      "e", "a", "d">>

\* GridClient.get_series_ids_for_team: a stub, whatever the team
get_series_ids_for_team(team_id, last_n) ==
    [error |-> M_NotImplemented, status |-> 501, message |-> M_Message,
     workaround |-> M_Workaround]

\* the detail of the 400 answer
M_MustProvide ==
    <<"M", "u", "s", "t", " ", "p", "r", "o", "v", "i", "d", "e", " ", "s", "e", "r", "i",
      "e", "s", "_", "i", "d", "s", " ", "p", "a", "r", "a", "m", "e", "t", "e", "r", " ",
      "(", "e", ".", "g", ".", ",", " ", "?", "s", "e", "r", "i", "e", "s", "_", "i", "d",
      "s", "=", "I", "D", "1", ",", "I", "D", "2", ",", "I", "D", "3", ")">>

\* the detail of the 500 answer: f"Error processing series {series_id}: {str(e)}"
M_ErrorProcessing ==
    <<"E", "r", "r", "o", "r", " ", "p", "r", "o", "c", "e", "s", "s", "i", "n", "g", " ",
      "s", "e", "r", "i", "e", "s", " ">>

M_Colon ==
    <<":", " ">>

\* the messages of the exceptions the GRID calls raise
E_Unauthorized ==
    <<"U", "n", "a", "u", "t", "h", "o", "r", "i", "z", "e", "d", ":", " ", "C", "h", "e",
      "c", "k", " ", "y", "o", "u", "r", " ", "G", "R", "I", "D", "_", "A", "P", "I", "_",
      "K", "E", "Y">>

E_Forbidden ==
    <<"F", "o", "r", "b", "i", "d", "d", "e", "n", ":", " ", "C", "h", "e", "c", "k", " ",
      "y", "o", "u", "r", " ", "A", "P", "I", " ", "p", "e", "r", "m", "i", "s", "s", "i",
      "o", "n", "s">>

\* the message of an OSError of the cache directory, which get_cache_path lets
\* through to the parsers
E_PermissionDenied ==
    <<"[", "E", "r", "r", "n", "o", " ", "1", "3", "]", " ", "P", "e", "r", "m", "i", "s",
      "s", "i", "o", "n", " ", "d", "e", "n", "i", "e", "d">>

\* the default of the last_n parameter
DefaultLastN == 10

\* the steps of the loop body that can raise, by position of the handler, and
\* the call each makes
SeriesSteps ==
    {"fetch", "download_events", "download_end_state", "parse_events", "parse_end_state"}

StepOp(step) ==
    CASE step = "fetch" -> "list_files"
      [] step = "download_events" -> "download_events_zip"
      [] step = "download_end_state" -> "download_end_state"
      [] step = "parse_events" -> "parse_events"
      [] step = "parse_end_state" -> "parse_end_state"

\* what str(e) can be for an exception of a step
Errors(step) ==
    IF step \in {"fetch", "download_events", "download_end_state"}
    THEN {E_Unauthorized, E_Forbidden}
    ELSE {E_PermissionDenied}

\* the step after a step of the loop body
StepAfter(step) ==
    CASE step = "fetch" -> "download_events"
      [] step = "download_events" -> "download_end_state"
      [] step = "download_end_state" -> "parse_events"
      [] step = "parse_events" -> "parse_end_state"
      [] step = "parse_end_state" -> "append"

\* ----------------------------------------------------------- inputs

\* texts of the inputs
T_Bind == <<"B", "i", "n", "d">>

T_Ascent == <<"A", "s", "c", "e", "n", "t">>

T_spike_plant == <<"s", "p", "i", "k", "e", "_", "p", "l", "a", "n", "t">>

T_spike_planted == <<"s", "p", "i", "k", "e", "_", "p", "l", "a", "n", "t", "e", "d">>

\* what a series' download can leave in its cache: event lines for the parser,
\* for the site views and for the duel table, and end-state documents
EventLines ==
    { BadLine,
      BlankLine,
      JList(<<>>),
      JObj([event_type |-> JS(<<"P", "L", "A", "N", "T">>), site |-> JS(<<"A">>), round_id |-> JS(<<"1">>)]),
      JObj([type |-> JS(S_plant_spike), map_name |-> JS(T_Ascent)]),
      JObj([type |-> JS(T_spike_planted), map |-> JS(T_Bind)]),
      JObj([event_type |->
                JS(<<"p", "l", "a", "y", "e", "r", "_", "k", "i", "l", "l", "e", "d">>),
            killer |-> JS(<<"X">>), victim |-> JS(<<"Y">>), round_id |-> JList(<<>>)]),
      JObj([event_type |-> JS(<<"r", "o", "u", "n", "d", "_", "s", "t", "a", "r", "t">>),
            type |-> JS(S_kill), round_id |-> JS(<<"1">>)]),
      JObj([event_type |-> JS(<<"p", "l", "a", "n", "t", "_", "k", "i", "l", "l">>), killer_name |-> JS(<<"Y">>)]),
      JObj([event_type |-> JNull, type |-> JS(S_kill)]) }

PlantLines ==
    { JObj([event_type |-> JS(T_spike_plant), map |-> JS(T_Bind), site |-> JS(<<"A">>)]),
      JObj([event_type |-> JS(T_spike_plant), map |-> JS(T_Bind), site |-> JS(<<"B">>)]),
      JObj([event_type |-> JS(T_spike_plant), map |-> JS(T_Bind), site |-> JS(<<"C">>)]),
      JObj([event_type |-> JS(T_spike_plant), map |-> JS(T_Bind), site |-> JNull]),
      JObj([type |-> JS(S_plant_spike), map_name |-> JS(T_Ascent)]) }

KillLines ==
    { JObj([event_type |-> JS(S_kill), killer |-> JS(<<"X">>), victim |-> JS(<<"Y">>)]),
      JObj([event_type |-> JS(S_kill), killer |-> JS(<<"Y">>), victim |-> JS(<<"X">>)]),
      JObj([event_type |-> JS(S_kill), killer |-> JS(<<"Z">>), victim |-> JS(<<"X">>)]),
      JObj([event_type |-> JS(S_kill), killer |-> JS(S_unknown), victim |-> JS(<<"Y">>)]),
      JObj([event_type |-> JS(S_kill), killer_name |-> JS(<<"Y">>), victim |-> JNull]) }

MapLists ==
    { <<>>,
      <<JS(T_Ascent)>>,
      <<JS(T_Ascent), JS(T_Bind)>>,
      <<JObj([name |-> JS(T_Ascent)])>>,
      <<JObj([map_name |-> JS(T_Bind)])>>,
      <<JObj([id |-> JNum(7)]), JS(T_Bind)>>,
      <<JS(<<>>)>>,
      <<JNum(7)>> }

PlayerLists ==
    { <<>>,
      <<JObj([name |-> JS(<<"X">>), agent |-> JS(<<"S", "o", "v", "a">>), team |-> JS(<<"T", "1">>)]),
        JObj([name |-> JS(<<"Y">>), agent |-> JS(<<"J", "e", "t", "t">>), team |-> JS(<<"T", "1">>)]),
        JObj([name |-> JS(<<"Z">>), selected_agent |-> JS(<<"O", "m", "e", "n">>), team |-> JS(<<"T", "2">>)])>>,
      <<JObj([name |-> JS(<<"X">>), team |-> JS(<<"T", "1">>)])>> }

\* a document with neither "maps" nor "players"
BareDoc == JObj([id |-> JNum(7)])

\* download_end_state writes the document it received; a cache without one,
\* or with one that does not decode, is what parse_end_state finds when the
\* file was removed or overwritten after the download
Docs ==
    {AbsentDoc, BadDoc, BareDoc}
    \cup {JObj([maps |-> JList(m)]) : m \in MapLists}
    \cup {JObj([players |-> JList(p)]) : p \in PlayerLists \ {<<>>}}
    \cup {JObj([maps |-> JList(m), players |-> JList(p)]) :
            m \in MapLists, p \in PlayerLists}

\* texts of agents and teams
T_Sova == <<"S", "o", "v", "a">>

T_Jett == <<"J", "e", "t", "t">>

T_Omen == <<"O", "m", "e", "n">>

T_T1 == <<"T", "1">>

T_T2 == <<"T", "2">>

\* a record that is a plant and a kill
PlantKillLines ==
    { JObj([event_type |-> JS(<<"p", "l", "a", "n", "t", "_", "k", "i", "l", "l">>),
            map |-> JS(T_Bind), site |-> JS(<<"A">>),
            killer |-> JS(<<"X">>), victim |-> JS(<<"Y">>)]) }

\* end-state documents whose extraction fails at the document, at the
\* "players" field, at a player entry after a good one, or at a team; and two
\* documents that are extracted
FailingDocs ==
    { AbsentDoc,
      BadDoc,
      JNull,
      JList(<<JS(S_maps)>>),
      JObj([maps |-> JList(<<JS(T_Ascent)>>), players |-> JNull]),
      JObj([maps |-> JList(<<JS(T_Ascent)>>),
            players |-> JList(<<JObj([name |-> JS(<<"X">>), agent |-> JS(T_Sova),
                                      team |-> JS(T_T1)]),
                                 JS(<<"Y">>)>>)]),
      JObj([maps |-> JList(<<JS(T_Bind)>>),
            players |-> JList(<<JObj([name |-> JS(<<"X">>), agent |-> JS(T_Jett),
                                      team |-> JList(<<>>)])>>)]),
      JObj([maps |-> JList(<<JS(T_Ascent), JS(T_Bind)>>),
            players |-> JList(<<JObj([name |-> JS(<<"X">>), agent |-> JS(T_Sova),
                                      team |-> JS(T_T1)])>>)]),
      JList(<<>>) }

\* records that are a plant and a kill, on two maps, and a plant on another site
BundleLines ==
    { JObj([event_type |-> JS(<<"p", "l", "a", "n", "t", "_", "k", "i", "l", "l">>),
            map |-> JS(T_Bind), site |-> JS(<<"A">>),
            killer |-> JS(<<"X">>), victim |-> JS(<<"Y">>)]),
      JObj([event_type |-> JS(<<"p", "l", "a", "n", "t", "_", "k", "i", "l", "l">>),
            map |-> JS(T_Ascent), site |-> JS(<<"B">>),
            killer |-> JS(<<"Z">>), victim |-> JS(<<"Y">>)]),
      JObj([event_type |-> JS(T_spike_plant), map |-> JS(T_Bind), site |-> JS(<<"B">>)]) }

\* two documents with maps and agents
BundleDocs ==
    { JObj([maps |-> JList(<<JS(T_Ascent)>>),
            players |-> JList(<<JObj([name |-> JS(<<"X">>), agent |-> JS(T_Sova),
                                      team |-> JS(T_T1)])>>)]),
      JObj([maps |-> JList(<<JObj([name |-> JS(T_Bind)]), JS(T_Ascent)>>),
            players |-> JList(<<JObj([name |-> JS(<<"Y">>), agent |-> JS(T_Sova),
                                      team |-> JS(T_T1)]),
                                 JObj([name |-> JS(<<"Z">>), agent |-> JS(T_Jett),
                                      team |-> JS(T_T1)])>>)]) }

\* a player of an end-state document
Player(name, agent, team) ==
    JObj([name |-> JS(<<name>>), agent |-> JS(agent), team |-> JS(team)])

\* the maps of a match: one map, a map played twice, and two maps of which one
\* is a mapping with a name
CompMapLists ==
    { <<JS(T_Ascent)>>,
      <<JS(T_Ascent), JS(T_Ascent)>>,
      <<JObj([name |-> JS(T_Bind)]), JS(T_Ascent)>> }

\* the players of a match: a team whose agents are listed out of order and
\* twice, among the players of another team; a team without any agent; a
\* player whose agent is under "selected_agent"
CompPlayerLists ==
    { <<Player("X", T_Sova, T_T1), Player("W", T_Omen, T_T2),
        Player("Y", T_Jett, T_T1), Player("Z", T_Sova, T_T1)>>,
      <<Player("X", T_Sova, T_T1),
        JObj([name |-> JS(<<"Y">>), team |-> JS(T_T2)])>>,
      <<Player("X", T_Omen, T_T2), Player("Y", T_Sova, T_T1),
        JObj([name |-> JS(<<"Z">>), selected_agent |-> JS(T_Jett), team |-> JS(T_T2)])>> }

CompDocs ==
    {JObj([maps |-> JList(m), players |-> JList(q)]) :
        m \in CompMapLists, q \in CompPlayerLists}

\* the players of the kills of a report: one capital letter each
PlayerName(i) == JS(<<UpperCase[i]>>)

\* a file of kills in which each of the players 1..n kills once and each of
\* the players 1..d dies twice
ReportKillLines(n, d) ==
    [i \in 1..n |-> JObj([event_type |-> JS(S_kill), killer |-> PlayerName(i)])]
    \o [i \in 1..(2 * d) |->
            JObj([event_type |-> JS(S_kill), victim |-> PlayerName((i + 1) \div 2)])]

\* files of plants: none; two maps of which the first has two sites and is not
\* the first by name; two maps met in the order of their names; a plant
\* without a site
ReportPlantLines ==
    { <<>>,
      <<JObj([event_type |-> JS(S_plant), map |-> JS(T_Bind), site |-> JS(<<"A">>)]),
        JObj([event_type |-> JS(S_plant), map |-> JS(T_Bind), site |-> JS(<<"B">>)]),
        JObj([event_type |-> JS(S_plant), map |-> JS(T_Bind), site |-> JS(<<"A">>)]),
        JObj([event_type |-> JS(S_plant), map |-> JS(T_Ascent), site |-> JS(<<"C">>)])>>,
      <<JObj([event_type |-> JS(S_plant), map |-> JS(T_Ascent), site |-> JS(<<"A">>)]),
        JObj([event_type |-> JS(S_plant), map |-> JS(T_Bind), site |-> JS(<<"B">>)])>>,
      <<JObj([event_type |-> JS(S_plant), map |-> JS(T_Bind), site |-> JNull])>> }

ReportMapLists == { <<>>, <<JS(T_Bind), JS(T_Ascent)>> }

\* the composition of each team of a document with c compositions:
\* compositions 1 and 2 have one team each, 3 and 4 two teams each, ...
RECURSIVE ReportTeams(_)
ReportTeams(c) ==
    IF c = 0 THEN <<>>
    ELSE ReportTeams(c - 1) \o [i \in 1..((c + 1) \div 2) |-> c]

\* the players of these teams: two per team, the agent of the team's
\* composition and Sova
ReportPlayers(c) ==
    LET teams == ReportTeams(c)
    IN  [k \in 1..(2 * Len(teams)) |->
            LET t == (k + 1) \div 2
            IN  JObj([agent |-> IF k % 2 = 1 THEN JS(<<LowerCase[teams[t]]>>)
                                ELSE JS(T_Sova),
                      team |-> JS(<<UpperCase[t]>>)])]

\* the sequences over V of length at most n
SeqsUpTo(V, n) == UNION {[1..k -> V] : k \in 0..n}

\* the ways to cut q into k consecutive files, none of them empty
Cuts(q, k) ==
    {c \in [0..k -> 0..Len(q)] :
        /\ c[0] = 0
        /\ c[k] = Len(q)
        /\ \A j \in 1..k : c[j - 1] < c[j]}

\* the lists of at most nfiles files holding at most budget lines of V (a file
\* without lines adds nothing to a parse and is left out)
FileLists(V, budget, nfiles) ==
    {<<>>} \cup
    UNION {{[j \in 1..k |-> SubSeq(q, c[j - 1] + 1, c[j])] : c \in Cuts(q, k)} :
            q \in SeqsUpTo(V, budget) \ {<<>>}, k \in 1..nfiles}

SeriesId(i) == <<"s", Digits[i + 1]>>

\* the series_ids parameter: absent, empty, the ids of 1..MaxSeries series
\* separated by commas, and the same with blanks around the ids
QuerySeriesIds ==
    {JNull, JS(<<>>)}
    \cup {JS(Join(<<",">>, [i \in 1..n |-> SeriesId(i)])) : n \in 1..MaxSeries}
    \cup {JS(Join(<<",">>, [i \in 1..n |-> <<" ">> \o SeriesId(i) \o <<" ">>])) :
            n \in 2..MaxSeries}

\* the team_id parameter: absent, empty, a team
QueryTeamIds == {JNull, JS(<<>>), JS(<<"t", "9">>)}

\* ------------------------------------------------------ scout_valorant

NoView == [k |-> "none"]

\* no report has been rendered
NoReport == <<>>

\* nothing has been returned yet
NoResponse == [status_code |-> 0]

\* a call of scout_valorant: the function, the position in parsed_series_ids of
\* the series it is for (0 for a call that is for the request), and whether it
\* returned
Call(op, n, ok) == [op |-> op, series |-> n, ok |-> ok]

\* a request for n series, before the first one is fetched
InitRequest(n) ==
    /\ pc = "fetch"
    /\ series_ids = [i \in 1..n |-> SeriesId(i)]
    /\ cache = [files |-> <<>>, doc |-> AbsentDoc]
    /\ fetched = 0
    /\ events = NoView
    /\ end_state = NoView
    /\ series_data = <<>>
    /\ maps_played = NoView
    /\ attack_site_preference = NoView
    /\ plant_sites = NoView
    /\ opening_duels = NoView
    /\ comp_frequency = NoView
    /\ query = [series_ids |-> JS(Join(<<",">>, [i \in 1..n |-> SeriesId(i)])),
                team_id |-> JNull]
    /\ calls = <<>>
    /\ markdown_report = NoReport
    /\ response = NoResponse

RECURSIVE LineCount(_)
LineCount(files) == IF Len(files) = 0 THEN 0 ELSE Len(Head(files)) + LineCount(Tail(files))

\* list_files, download_events_zip and download_end_state of the next series
\* succeed and leave event files and an end-state document in its cache
Fetch(V, D, nfiles) ==
    /\ pc = "fetch"
    /\ \E files \in FileLists(V, MaxLines - fetched, nfiles), doc \in D :
        /\ cache' = [files |-> files, doc |-> doc]
        /\ fetched' = fetched + LineCount(files)
    /\ pc' = "parse_events"
    /\ UNCHANGED <<series_ids, events, end_state, series_data, maps_played,
                   attack_site_preference, plant_sites, opening_duels, comp_frequency>>
    /\ calls' = calls \o <<Call("list_files", Len(series_data) + 1, TRUE),
                         Call("download_events_zip", Len(series_data) + 1, TRUE),
                         Call("download_end_state", Len(series_data) + 1, TRUE)>>
    /\ UNCHANGED <<query, markdown_report, response>>

ParseEvents ==
    /\ pc = "parse_events"
    /\ events' = parse_events(cache.files)
    /\ pc' = "parse_end_state"
    /\ UNCHANGED <<series_ids, cache, fetched, end_state, series_data, maps_played,
                   attack_site_preference, plant_sites, opening_duels, comp_frequency>>
    /\ calls' = Append(calls, Call("parse_events", Len(series_data) + 1, TRUE))
    /\ UNCHANGED <<query, markdown_report, response>>

ParseEndState ==
    /\ pc = "parse_end_state"
    /\ end_state' = parse_end_state(cache.doc)
    /\ pc' = "append"
    /\ UNCHANGED <<series_ids, cache, fetched, events, series_data, maps_played,
                   attack_site_preference, plant_sites, opening_duels, comp_frequency>>
    /\ calls' = Append(calls, Call("parse_end_state", Len(series_data) + 1, TRUE))
    /\ UNCHANGED <<query, markdown_report, response>>

\* series_data.append(...), then the next series or the reducers
AppendBundle ==
    /\ pc = "append"
    /\ series_data' = Append(series_data,
                             [series_id |-> series_ids[Len(series_data) + 1],
                              events |-> events, end_state |-> end_state])
    /\ pc' = IF Len(series_data) + 1 < Len(series_ids) THEN "fetch" ELSE "maps_played"
    /\ UNCHANGED <<series_ids, cache, fetched, events, end_state, maps_played,
                   attack_site_preference, plant_sites, opening_duels, comp_frequency>>
    /\ calls' = Append(calls, Call("append", Len(series_data) + 1, TRUE))
    /\ UNCHANGED <<query, markdown_report, response>>

AnalyzeMapsPlayed ==
    /\ pc = "maps_played"
    /\ maps_played' = analyze_maps_played(series_data)
    /\ pc' = "attack_site_preference"
    /\ UNCHANGED <<series_ids, cache, fetched, events, end_state, series_data,
                   attack_site_preference, plant_sites, opening_duels, comp_frequency>>
    /\ calls' = Append(calls, Call("analyze_maps_played", 0, TRUE))
    /\ UNCHANGED <<query, markdown_report, response>>

AnalyzeAttackSitePreference ==
    /\ pc = "attack_site_preference"
    /\ attack_site_preference' = analyze_attack_site_preference(series_data)
    /\ pc' = "plant_sites"
    /\ UNCHANGED <<series_ids, cache, fetched, events, end_state, series_data,
                   maps_played, plant_sites, opening_duels, comp_frequency>>
    /\ calls' = Append(calls, Call("analyze_attack_site_preference", 0, TRUE))
    /\ UNCHANGED <<query, markdown_report, response>>

AnalyzePlantSites ==
    /\ pc = "plant_sites"
    /\ plant_sites' = analyze_plant_sites(series_data)
    /\ pc' = "opening_duels"
    /\ UNCHANGED <<series_ids, cache, fetched, events, end_state, series_data,
                   maps_played, attack_site_preference, opening_duels, comp_frequency>>
    /\ calls' = Append(calls, Call("analyze_plant_sites", 0, TRUE))
    /\ UNCHANGED <<query, markdown_report, response>>

AnalyzeOpeningDuels ==
    /\ pc = "opening_duels"
    /\ opening_duels' = analyze_opening_duels(series_data)
    /\ pc' = "comp_frequency"
    /\ UNCHANGED <<series_ids, cache, fetched, events, end_state, series_data,
                   maps_played, attack_site_preference, plant_sites, comp_frequency>>
    /\ calls' = Append(calls, Call("analyze_opening_duels", 0, TRUE))
    /\ UNCHANGED <<query, markdown_report, response>>

\* the bundles after agents.sort() on every team of every bundle
AgentsSortedInPlace(sd) ==
    [n \in 1..Len(sd) |->
        [sd[n] EXCEPT !.end_state.comps =
            [j \in 1..Len(@) |-> [@[j] EXCEPT !.vals = SortAgents(<<>>, @, 1)]]]]

\* AnalyzeCompFrequency building the signature with agents.sort()
AnalyzeCompFrequency_sort_in_place ==
    /\ pc = "comp_frequency"
    /\ comp_frequency' = analyze_comp_frequency(series_data)
    /\ series_data' = AgentsSortedInPlace(series_data)
    /\ pc' = "report"
    /\ UNCHANGED <<series_ids, cache, fetched, events, end_state,
                   maps_played, attack_site_preference, plant_sites, opening_duels>>
    /\ calls' = Append(calls, Call("analyze_comp_frequency", 0, TRUE))
    /\ UNCHANGED <<query, markdown_report, response>>

AnalyzeCompFrequency ==
    /\ pc = "comp_frequency"
    /\ comp_frequency' = analyze_comp_frequency(series_data)
    /\ pc' = "report"
    /\ UNCHANGED <<series_ids, cache, fetched, events, end_state, series_data,
                   maps_played, attack_site_preference, plant_sites, opening_duels>>
    /\ calls' = Append(calls, Call("analyze_comp_frequency", 0, TRUE))
    /\ UNCHANGED <<query, markdown_report, response>>

\* the clock readings of the report's "Generated" line
Stamps == {R_Stamp}

\* a request handler that raised: the server's answer
R_InternalServerError ==
    <<"I", "n", "t", "e", "r", "n", "a", "l", " ", "S", "e", "r", "v", "e", "r", " ",
      "E", "r", "r", "o", "r">>

\* generate_markdown_report and the response.  The report reads the items of
\* the count dicts in dict order, which the views leave open among keys of
\* equal count; a sorted() that raises ends the request.
Render ==
    /\ pc = "report"
    /\ IF ReportRaises(attack_site_preference, plant_sites, comp_frequency.by_map,
                       comp_frequency.insufficient_data)
       THEN /\ markdown_report' = markdown_report
            /\ response' = [status_code |-> 500, detail |-> R_InternalServerError]
            /\ calls' = Append(calls, Call("generate_markdown_report", 0, FALSE))
            /\ pc' = "error"
       ELSE /\ \E stamp \in Stamps,
                  om \in DictOrders(maps_played.maps),
                  oa \in DictOrdersOf(SiteCounts(attack_site_preference)),
                  op \in DictOrdersOf(SiteCounts(plant_sites)),
                  oc \in DictOrdersOf(CompCounts(comp_frequency.by_map)) :
                    markdown_report' =
                        generate_markdown_report(
                            series_ids, stamp,
                            Items(maps_played.maps, om),
                            SiteItems(attack_site_preference, oa),
                            SiteItems(plant_sites, op),
                            opening_duels,
                            comp_frequency.insufficient_data,
                            CompItems(comp_frequency.by_map, oc))
            /\ response' = [status_code |-> 200,
                            series_analyzed |-> series_ids,
                            maps_played |-> maps_played,
                            comp_frequency |-> comp_frequency,
                            attack_site_preference |-> attack_site_preference,
                            plant_sites |-> plant_sites,
                            opening_duels |-> opening_duels,
                            markdown_report |-> markdown_report']
            /\ calls' = Append(calls, Call("generate_markdown_report", 0, TRUE))
            /\ pc' = "done"
    /\ UNCHANGED <<series_ids, cache, fetched, events, end_state, series_data,
                   maps_played, attack_site_preference, plant_sites, opening_duels,
                   comp_frequency, query>>

\* a request as it arrives
InitQuery ==
    /\ pc = "select_mode"
    /\ query \in [series_ids : QuerySeriesIds, team_id : QueryTeamIds]
    /\ series_ids = <<>>
    /\ cache = [files |-> <<>>, doc |-> AbsentDoc]
    /\ fetched = 0
    /\ events = NoView
    /\ end_state = NoView
    /\ series_data = <<>>
    /\ maps_played = NoView
    /\ attack_site_preference = NoView
    /\ plant_sites = NoView
    /\ opening_duels = NoView
    /\ comp_frequency = NoView
    /\ calls = <<>>
    /\ markdown_report = NoReport
    /\ response = NoResponse

\* the mode selection asking for the team first, whatever series_ids is
SelectMode_team_first ==
    /\ pc = "select_mode"
    /\ IF Truthy(query.team_id)
       THEN LET not_impl == get_series_ids_for_team(query.team_id, DefaultLastN)
            IN  /\ calls' = Append(calls, Call("get_series_ids_for_team", 0, TRUE))
                /\ response' = [status_code |-> 501,
                                detail |-> [error |-> not_impl.error,
                                            message |-> not_impl.message,
                                            workaround |-> not_impl.workaround]]
                /\ pc' = "error"
                /\ UNCHANGED series_ids
       ELSE IF ~Truthy(query.series_ids)
       THEN /\ response' = [status_code |-> 400, detail |-> M_MustProvide]
            /\ pc' = "error"
            /\ UNCHANGED <<series_ids, calls>>
       ELSE /\ series_ids' = [i \in 1..Len(Split(query.series_ids.s, ",")) |->
                                Strip(Split(query.series_ids.s, ",")[i])]
            /\ pc' = "fetch"
            /\ UNCHANGED <<calls, response>>
    /\ UNCHANGED <<cache, fetched, events, end_state, series_data, maps_played,
                   attack_site_preference, plant_sites, opening_duels, comp_frequency,
                   query, markdown_report>>

\* scout_valorant up to the loop: the team mode, which is not implemented, the
\* request without series_ids, and the ids of the request
SelectMode ==
    /\ pc = "select_mode"
    /\ IF Truthy(query.team_id) /\ ~Truthy(query.series_ids)
       THEN LET not_impl == get_series_ids_for_team(query.team_id, DefaultLastN)
            IN  /\ calls' = Append(calls, Call("get_series_ids_for_team", 0, TRUE))
                /\ response' = [status_code |-> 501,
                                detail |-> [error |-> not_impl.error,
                                            message |-> not_impl.message,
                                            workaround |-> not_impl.workaround]]
                /\ pc' = "error"
                /\ UNCHANGED series_ids
       ELSE IF ~Truthy(query.series_ids)
       THEN /\ response' = [status_code |-> 400, detail |-> M_MustProvide]
            /\ pc' = "error"
            /\ UNCHANGED <<series_ids, calls>>
       ELSE /\ series_ids' = [i \in 1..Len(Split(query.series_ids.s, ",")) |->
                                Strip(Split(query.series_ids.s, ",")[i])]
            /\ pc' = "fetch"
            /\ UNCHANGED <<calls, response>>
    /\ UNCHANGED <<cache, fetched, events, end_state, series_data, maps_played,
                   attack_site_preference, plant_sites, opening_duels, comp_frequency,
                   query, markdown_report>>

\* grid_client.list_files of the next series returns; its result is not used
ListFiles ==
    /\ pc = "fetch"
    /\ pc' = "download_events"
    /\ calls' = Append(calls, Call("list_files", Len(series_data) + 1, TRUE))
    /\ UNCHANGED <<series_ids, cache, fetched, events, end_state, series_data,
                   maps_played, attack_site_preference, plant_sites, opening_duels,
                   comp_frequency, query, markdown_report, response>>

\* download_events_zip going on to the parse of the events, without the
\* download of the end-state
DownloadEventsZip_then_parse(V, nfiles) ==
    /\ pc = "download_events"
    /\ \E files \in FileLists(V, MaxLines - fetched, nfiles) :
        /\ cache' = [files |-> files, doc |-> AbsentDoc]
        /\ fetched' = fetched + LineCount(files)
    /\ pc' = "parse_events"
    /\ calls' = Append(calls, Call("download_events_zip", Len(series_data) + 1, TRUE))
    /\ UNCHANGED <<series_ids, events, end_state, series_data, maps_played,
                   attack_site_preference, plant_sites, opening_duels, comp_frequency,
                   query, markdown_report, response>>

\* grid_client.download_events_zip returns: the archive is extracted into the
\* cache of the series, which holds no end-state document yet
DownloadEventsZip(V, nfiles) ==
    /\ pc = "download_events"
    /\ \E files \in FileLists(V, MaxLines - fetched, nfiles) :
        /\ cache' = [files |-> files, doc |-> AbsentDoc]
        /\ fetched' = fetched + LineCount(files)
    /\ pc' = "download_end_state"
    /\ calls' = Append(calls, Call("download_events_zip", Len(series_data) + 1, TRUE))
    /\ UNCHANGED <<series_ids, events, end_state, series_data, maps_played,
                   attack_site_preference, plant_sites, opening_duels, comp_frequency,
                   query, markdown_report, response>>

\* grid_client.download_end_state returns: the document is in the cache
DownloadEndState(D) ==
    /\ pc = "download_end_state"
    /\ \E doc \in D : cache' = [cache EXCEPT !.doc = doc]
    /\ pc' = "parse_events"
    /\ calls' = Append(calls, Call("download_end_state", Len(series_data) + 1, TRUE))
    /\ UNCHANGED <<series_ids, fetched, events, end_state, series_data, maps_played,
                   attack_site_preference, plant_sites, opening_duels, comp_frequency,
                   query, markdown_report, response>>

\* the handler going on with the next step after an exception
SeriesRaises_and_continues ==
    /\ pc \in SeriesSteps
    /\ calls' = Append(calls, Call(StepOp(pc), Len(series_data) + 1, FALSE))
    /\ events' = IF pc = "parse_events" THEN EmptyFacts ELSE events
    /\ end_state' = IF pc = "parse_end_state" THEN EmptyEndState ELSE end_state
    /\ pc' = StepAfter(pc)
    /\ UNCHANGED <<series_ids, cache, fetched, series_data, maps_played,
                   attack_site_preference, plant_sites, opening_duels, comp_frequency,
                   query, markdown_report, response>>

\* a step of the loop body raises: `except Exception` ends the request with
\* the 500 answer that names the series
SeriesRaises ==
    /\ pc \in SeriesSteps
    /\ calls' = Append(calls, Call(StepOp(pc), Len(series_data) + 1, FALSE))
    /\ \E e \in Errors(pc) :
        response' = [status_code |-> 500,
                     detail |-> M_ErrorProcessing \o series_ids[Len(series_data) + 1]
                                    \o M_Colon \o e]
    /\ pc' = "error"
    /\ UNCHANGED <<series_ids, cache, fetched, events, end_state, series_data,
                   maps_played, attack_site_preference, plant_sites, opening_duels,
                   comp_frequency, query, markdown_report>>

Analyze ==
    \/ AnalyzeMapsPlayed
    \/ AnalyzeAttackSitePreference
    \/ AnalyzePlantSites
    \/ AnalyzeOpeningDuels
    \/ AnalyzeCompFrequency

\* one series, its events drawn from EventLines in up to MaxFiles files
InitEvents == InitRequest(1)

NextEvents ==
    \/ Fetch(EventLines, {BareDoc}, MaxFiles)
    \/ ParseEvents
    \/ ParseEndState
    \/ AppendBundle
    \/ Analyze
    \/ Render

SpecEvents == InitEvents /\ [][NextEvents]_vars

\* up to MaxSeries series of spike plants
InitSeries == \E n \in 1..MaxSeries : InitRequest(n)

NextSites ==
    \/ Fetch(PlantLines, {BareDoc}, 1)
    \/ ParseEvents
    \/ ParseEndState
    \/ AppendBundle
    \/ Analyze
    \/ Render

SpecSites == InitSeries /\ [][NextSites]_vars

\* up to MaxSeries series of kills
NextDuels ==
    \/ Fetch(KillLines, {BareDoc}, 1)
    \/ ParseEvents
    \/ ParseEndState
    \/ AppendBundle
    \/ Analyze
    \/ Render

SpecDuels == InitSeries /\ [][NextDuels]_vars

\* up to MaxSeries series of end-state documents
NextMaps ==
    \/ Fetch({}, Docs, 1)
    \/ ParseEvents
    \/ ParseEndState
    \/ AppendBundle
    \/ Analyze
    \/ Render

SpecMaps == InitSeries /\ [][NextMaps]_vars

\* up to MaxSeries series of plants and kills with end-state documents of
\* which most cannot be extracted
NextEndState ==
    \/ Fetch(PlantKillLines, FailingDocs, 1)
    \/ ParseEvents
    \/ ParseEndState
    \/ AppendBundle
    \/ Analyze
    \/ Render

SpecEndState == InitSeries /\ [][NextEndState]_vars

\* up to MaxSeries series with plants, kills, maps and agents
NextBundles ==
    \/ Fetch(BundleLines, BundleDocs, 1)
    \/ ParseEvents
    \/ ParseEndState
    \/ AppendBundle
    \/ Analyze
    \/ Render

SpecBundles == InitSeries /\ [][NextBundles]_vars

\* up to MaxSeries series with maps and teams of agents, their event archives
\* without records
NextComps ==
    \/ Fetch({}, CompDocs, 1)
    \/ ParseEvents
    \/ ParseEndState
    \/ AppendBundle
    \/ Analyze
    \/ Render

SpecComps == InitSeries /\ [][NextComps]_vars

\* one series whose downloads have left in its cache a file of up to
\* MaxPlayers players' kills and of plants, and a document of maps and of up to
\* MaxComps compositions
InitReport ==
    /\ pc = "parse_events"
    /\ series_ids = <<SeriesId(1)>>
    /\ \E n \in 0..MaxPlayers, d \in 0..MaxDeaths, c \in 0..MaxComps,
          plants \in ReportPlantLines, maps \in ReportMapLists :
        /\ d <= n
        /\ cache = [files |-> <<ReportKillLines(n, d) \o plants>>,
                    doc |-> JObj([maps |-> JList(maps),
                                  players |-> JList(ReportPlayers(c))])]
    /\ fetched = LineCount(cache.files)
    /\ events = NoView
    /\ end_state = NoView
    /\ series_data = <<>>
    /\ maps_played = NoView
    /\ attack_site_preference = NoView
    /\ plant_sites = NoView
    /\ opening_duels = NoView
    /\ comp_frequency = NoView
    /\ query = [series_ids |-> JS(SeriesId(1)), team_id |-> JNull]
    /\ calls = <<Call("list_files", 1, TRUE), Call("download_events_zip", 1, TRUE),
                 Call("download_end_state", 1, TRUE)>>
    /\ markdown_report = NoReport
    /\ response = NoResponse

NextReport ==
    \/ ParseEvents
    \/ ParseEndState
    \/ AppendBundle
    \/ Analyze
    \/ Render

SpecReport == InitReport /\ [][NextReport]_vars

\* any request: its mode, then its series one at a time, each step of which
\* returns or raises
NextRequest ==
    \/ SelectMode
    \/ ListFiles
    \/ DownloadEventsZip(PlantKillLines, 1)
    \/ DownloadEndState(BundleDocs)
    \/ SeriesRaises
    \/ ParseEvents
    \/ ParseEndState
    \/ AppendBundle
    \/ Analyze
    \/ Render

SpecRequest == InitQuery /\ [][NextRequest]_vars

\* ------------------------------------------------------------ properties

\* events is the result of parse_events on the files of cache
EventsParsed == events # NoView /\ pc # "parse_events"

\* the records events_by_round holds: those whose line was processed to its end
GroupedRecords ==
    UNION {{events.events_by_round[i].vals[j] :
                j \in 1..Len(events.events_by_round[i].vals)} :
            i \in 1..Len(events.events_by_round)}

HasPlantFact(e) == \E i \in 1..Len(events.spike_plants) : events.spike_plants[i].raw_event = e

HasKillFact(e) == \E i \in 1..Len(events.kills) : events.kills[i].raw_event = e

\* a record that neither fails to decode nor makes classification, extraction
\* or grouping fail
C1_ValidRecord(e) ==
    /\ IsDict(e)
    /\ IsStr(get(e, "event_type", JS(<<>>)))
    /\ Hashable(get(e, "round_id", JS(S_unknown)))

\* C1: a bad record affects only itself: every valid record of every file,
\* also one on a line after a line that does not decode or that makes
\* classification fail, is grouped by round and, when it is a plant or a kill,
\* has its fact in the result.
C1_BadRecordAffectsOnlyItself ==
    EventsParsed =>
        \A f \in 1..Len(cache.files) : \A i \in 1..Len(cache.files[f]) :
            LET e == cache.files[f][i]
            IN  C1_ValidRecord(e) =>
                    /\ e \in GroupedRecords
                    /\ is_spike_plant(e) => HasPlantFact(e)
                    /\ is_kill(e) => HasKillFact(e)

\* the type indicator as the claim has it: "event_type" lower-cased when
\* present, otherwise "type" lower-cased
C10_ClaimedIndicator(e) ==
    IF "event_type" \in DOMAIN e.f THEN lower(e.f.event_type.s)
    ELSE IF "type" \in DOMAIN e.f /\ IsStr(e.f.type) THEN lower(e.f.type.s)
    ELSE <<>>

\* the type indicator of the code: "event_type" lower-cased when present,
\* otherwise the empty text
C10_CodeIndicator(e) ==
    IF "event_type" \in DOMAIN e.f THEN lower(e.f.event_type.s) ELSE <<>>

C10_TypeIs(e, text) == "type" \in DOMAIN e.f /\ e.f.type = JS(text)

MapsReady ==
    pc \in {"attack_site_preference", "plant_sites", "opening_duels", "comp_frequency",
            "report", "done"}

SitesReady == pc \in {"opening_duels", "comp_frequency", "report", "done"}

DuelsReady == pc \in {"comp_frequency", "report", "done"}

CompsReady == pc \in {"report", "done"}

\* the sum of the values of the mapping f
RECURSIVE SumOf(_, _)
SumOf(f, keys) ==
    IF keys = {} THEN 0
    ELSE LET x == CHOOSE y \in keys : TRUE IN f[x] + SumOf(f, keys \ {x})

RECURSIVE AllPlants(_)
AllPlants(sd) ==
    IF Len(sd) = 0 THEN <<>> ELSE Head(sd).events.spike_plants \o AllPlants(Tail(sd))

RECURSIVE AllKills(_)
AllKills(sd) ==
    IF Len(sd) = 0 THEN <<>> ELSE Head(sd).events.kills \o AllKills(Tail(sd))

RECURSIVE AllDescriptors(_)
AllDescriptors(sd) ==
    IF Len(sd) = 0 THEN <<>> ELSE Head(sd).end_state.maps \o AllDescriptors(Tail(sd))

Abs(x) == IF x < 0 THEN -x ELSE x

C2_MapOk(entry) ==
    LET plants == AllPlants(series_data)
        total == Cardinality({i \in 1..Len(plants) : plants[i].map = entry.map})
        sites == DOMAIN entry.percentages
    IN  /\ entry.total = total
        /\ \A s \in sites :
            entry.percentages[s] =
                Round1(Cardinality({i \in 1..Len(plants) :
                            plants[i].map = entry.map /\ plants[i].site = s}), total)
        /\ Abs(SumOf(entry.percentages, sites) - 1000) <= Cardinality(sites)

\* C2: for every map of the plant-site and attack-site views, each percentage
\* is round(count / total * 100, 1) with total the number of plant facts of the
\* map, and the percentages of the map sum to 100 within 0.1 per site
\* (percentages are held in tenths), whatever site values the plants carry.
C2_PercentagesSumTo100 ==
    SitesReady =>
        /\ \A i \in 1..Len(plant_sites) : C2_MapOk(plant_sites[i])
        /\ \A i \in 1..Len(attack_site_preference) : C2_MapOk(attack_site_preference[i])

\* C8: the attack-site view and the plant-site view of the same bundles are
\* equal: the same maps and, per map, the same counts, percentages and total.
C8_AttackEqualsPlant ==
    SitesReady => attack_site_preference = plant_sites

\* both views hold two maps, one of them with several sites and one whose
\* plants carry the default site
C8_Witness ==
    /\ SitesReady
    /\ Len(plant_sites) = 2
    /\ \E i \in 1..Len(plant_sites) : Cardinality(DOMAIN plant_sites[i].counts) >= 2
    /\ \E i \in 1..Len(plant_sites) : JS(S_unknown) \in DOMAIN plant_sites[i].counts

C3_Kills(p) ==
    LET kills == AllKills(series_data)
    IN  Cardinality({i \in 1..Len(kills) : kills[i].killer = p})

C3_Deaths(p) ==
    LET kills == AllKills(series_data)
    IN  Cardinality({i \in 1..Len(kills) : kills[i].victim = p})

\* C3: every entry of the duel table has net = kills - deaths, kills and deaths
\* being the numbers of kill facts of all bundles that name the player as
\* killer and as victim; neither "unknown" nor a missing name is a key.
C3_NetIsKillsMinusDeaths ==
    DuelsReady =>
        \A i \in 1..Len(opening_duels) :
            LET row == opening_duels[i]
            IN  /\ row.first_kills = C3_Kills(row.player)
                /\ row.first_deaths = C3_Deaths(row.player)
                /\ row.net = C3_Kills(row.player) - C3_Deaths(row.player)
                /\ row.player # JS(S_unknown)
                /\ row.player # JNull

\* a table with a player who killed and died, from kills that also name
\* "unknown" and a missing victim
C3_Witness ==
    /\ DuelsReady
    /\ \E i \in 1..Len(opening_duels) :
        opening_duels[i].first_kills > 0 /\ opening_duels[i].first_deaths > 0
    /\ \E i \in 1..Len(AllKills(series_data)) :
        AllKills(series_data)[i].killer = JS(S_unknown)
    /\ \E i \in 1..Len(AllKills(series_data)) :
        AllKills(series_data)[i].victim = JNull

\* the names in the order the scan of the kill facts meets them: killer, then
\* victim, of each kill in turn
RECURSIVE C9_Scan(_)
C9_Scan(kills) ==
    IF Len(kills) = 0 THEN <<>>
    ELSE <<Head(kills).killer, Head(kills).victim>> \o C9_Scan(Tail(kills))

C9_FirstSeen(p) ==
    LET scan == C9_Scan(AllKills(series_data))
    IN  CHOOSE i \in 1..Len(scan) :
            scan[i] = p /\ \A j \in 1..(i - 1) : scan[j] # p

\* C9: the duel table is ordered by net descending, and players of equal net
\* are in the order in which the scan of the kill facts first met them.
C9_SortedByNetStable ==
    DuelsReady =>
        \A i, j \in 1..Len(opening_duels) :
            i < j =>
                \/ opening_duels[i].net > opening_duels[j].net
                \/ /\ opening_duels[i].net = opening_duels[j].net
                   /\ C9_FirstSeen(opening_duels[i].player)
                        < C9_FirstSeen(opening_duels[j].player)

\* a table of three players where the sort moved a player met earlier below
\* two players of equal net, who stand in first-met, not alphabetical, order
C9_Witness ==
    /\ DuelsReady
    /\ Len(opening_duels) = 3
    /\ opening_duels[1].net = opening_duels[2].net
    /\ opening_duels[2].net > opening_duels[3].net
    /\ TextLess(opening_duels[2].player.s, opening_duels[1].player.s)
    /\ C9_FirstSeen(opening_duels[3].player) < C9_FirstSeen(opening_duels[2].player)

\* C4 as stated: the map pool total is the sum of the per-map counts and the
\* number of map descriptors of all bundles, none being left uncounted.
C4_TotalCountsEveryDescriptor ==
    MapsReady =>
        /\ maps_played.total = SumOf(maps_played.maps, DOMAIN maps_played.maps)
        /\ maps_played.total = Len(AllDescriptors(series_data))

\* the name a descriptor is counted under: a dict under "name", else under
\* "map_name"; a string under itself; anything else under "unknown"
C4_CountedAs(d) ==
    IF d.k = "obj"
    THEN IF "name" \in DOMAIN d.f /\ Truthy(d.f.name) THEN d.f.name
         ELSE IF "map_name" \in DOMAIN d.f THEN d.f.map_name
         ELSE JNull
    ELSE IF d.k = "str" THEN d
    ELSE JS(S_unknown)

\* C4 amended: the total is the sum of the per-map counts and the number of
\* descriptors that have a non-empty name; each name's count is the number of
\* descriptors counted under it; a dict with neither name field and an empty
\* name are not counted.
C4_TotalCountsNamedDescriptors ==
    MapsReady =>
        LET ds == AllDescriptors(series_data)
        IN  /\ maps_played.total = SumOf(maps_played.maps, DOMAIN maps_played.maps)
            /\ maps_played.total =
                Cardinality({i \in 1..Len(ds) : Truthy(C4_CountedAs(ds[i]))})
            /\ \A m \in DOMAIN maps_played.maps :
                maps_played.maps[m] =
                    Cardinality({i \in 1..Len(ds) : C4_CountedAs(ds[i]) = m})
            /\ \A i \in 1..Len(ds) :
                Truthy(C4_CountedAs(ds[i])) => C4_CountedAs(ds[i]) \in DOMAIN maps_played.maps

\* a pool of two or more counted maps, one counted through "map_name", beside
\* a descriptor that is not counted
C4_Witness ==
    /\ MapsReady
    /\ maps_played.total >= 2
    /\ maps_played.total < Len(AllDescriptors(series_data))
    /\ \E i \in 1..Len(AllDescriptors(series_data)) :
        LET d == AllDescriptors(series_data)[i]
        IN  d.k = "obj" /\ "name" \notin DOMAIN d.f /\ "map_name" \in DOMAIN d.f

C5_Contributes(bundle) ==
    /\ Len(bundle.end_state.maps) > 0
    /\ \E j \in 1..Len(bundle.end_state.comps) : Len(bundle.end_state.comps[j].vals) > 0

C5_NoPlayersKey(bundle) ==
    /\ "raw_data" \in DOMAIN bundle.end_state
    /\ "players" \notin DOMAIN bundle.end_state.raw_data.f

\* C5: insufficient_data is true exactly when no bundle has both a non-empty
\* maps list and a team with a non-empty agent list; a document without a
\* "players" key contributes nothing, so the flag is true when no other
\* document does.
C5_InsufficientDataIff ==
    CompsReady =>
        /\ comp_frequency.insufficient_data <=>
            ~(\E n \in 1..Len(series_data) : C5_Contributes(series_data[n]))
        /\ \A n \in 1..Len(series_data) :
            C5_NoPlayersKey(series_data[n]) => ~C5_Contributes(series_data[n])
        /\ (\A n \in 1..Len(series_data) : C5_NoPlayersKey(series_data[n]))
            => comp_frequency.insufficient_data

\* the flag is false for two series of which one has maps but no "players" key
\* and the other has a nameless map descriptor and agents
C5_Witness ==
    /\ CompsReady
    /\ ~comp_frequency.insufficient_data
    /\ \E n \in 1..Len(series_data) :
        C5_NoPlayersKey(series_data[n]) /\ Len(series_data[n].end_state.maps) > 0
    /\ \E n \in 1..Len(series_data) :
        /\ C5_Contributes(series_data[n])
        /\ \A j \in 1..Len(series_data[n].end_state.maps) :
            ~Truthy(MapPoolName(series_data[n].end_state.maps[j]))

\* C7: no reducer changes its input: every step taken while the reducers run
\* leaves every bundle of series_data as it was.
C7_ReducersLeaveInput ==
    [][(pc \in {"maps_played", "attack_site_preference", "plant_sites",
                "opening_duels", "comp_frequency"})
        => (series_data' = series_data)]_vars

\* all five reducers have run over bundles that hold maps and a team whose
\* agents are not in sorted order
C7_Witness ==
    /\ CompsReady
    /\ \E n \in 1..Len(series_data) :
        /\ Len(series_data[n].end_state.maps) > 0
        /\ \E j \in 1..Len(series_data[n].end_state.comps) :
            LET agents == series_data[n].end_state.comps[j].vals
            IN  agents # SortAgents(<<>>, agents, 1)

\* a document whose extraction fails: absent, not decodable, not a dict while
\* the key test or the field access fails on it, a "players" field that cannot
\* be iterated, a player entry that is no dict, or a team that cannot be a key
C11_PlayerFails(p) ==
    \/ p.k # "obj"
    \/ /\ Truthy(Or(get(p, "agent", JNull), get(p, "selected_agent", JNull)))
       /\ get(p, "team", JS(S_unknown)).k \in {"list", "obj"}

C11_ExtractionFails(doc) ==
    \/ doc \in {AbsentDoc, BadDoc}
    \/ doc.k \in {"null", "num"}
    \/ doc.k = "list" /\ \E i \in 1..Len(doc.l) : doc.l[i] \in {JS(S_maps), JS(S_players)}
    \/ doc.k = "str" /\ (contains(S_maps, doc.s) \/ contains(S_players, doc.s))
    \/ /\ doc.k = "obj"
       /\ "players" \in DOMAIN doc.f
       /\ \/ doc.f.players.k \in {"null", "num"}
          \/ /\ doc.f.players.k = "list"
             /\ \E i \in 1..Len(doc.f.players.l) : C11_PlayerFails(doc.f.players.l[i])

C11_Extracted(bundle) == bundle.end_state # EmptyEndState

\* the bundles with their end-state results taken away
C11_EventsOnly(sd) == [n \in 1..Len(sd) |-> [sd[n] EXCEPT !.end_state = EmptyEndState]]

C12_Perms(n) == {p \in [1..n -> 1..n] : \A i, j \in 1..n : i # j => p[i] # p[j]}

C12_Permuted(sd, p) == [i \in 1..Len(sd) |-> sd[p[i]]]

\* the entries of a mapping held as a sequence, without their order
C12_Entries(q) == {q[i] : i \in 1..Len(q)}

C12_ByNetDescending(rows) ==
    \A i, j \in 1..Len(rows) : i < j => rows[i].net >= rows[j].net

\* C12: for every permutation of the bundle list the map pool, the plant-site
\* view, the attack-site view and the composition view have the same entries
\* (maps, counts, percentages, totals, flag), key order apart, and the duel
\* table has the same rows (player, kills, deaths, net), ordered by net
\* descending, so that only rows of equal net can change places.  The views
\* are compared when the last reducer has returned.
C12_ReducersIgnoreBundleOrder ==
    pc = "report" =>
        \A p \in C12_Perms(Len(series_data)) :
            LET sd == C12_Permuted(series_data, p)
            IN  /\ analyze_maps_played(sd) = maps_played
                /\ C12_Entries(analyze_plant_sites(sd)) = C12_Entries(plant_sites)
                /\ Len(analyze_plant_sites(sd)) = Len(plant_sites)
                /\ C12_Entries(analyze_attack_site_preference(sd))
                        = C12_Entries(attack_site_preference)
                /\ Len(analyze_attack_site_preference(sd)) = Len(attack_site_preference)
                /\ C12_Entries(analyze_comp_frequency(sd).by_map)
                        = C12_Entries(comp_frequency.by_map)
                /\ Len(analyze_comp_frequency(sd).by_map) = Len(comp_frequency.by_map)
                /\ analyze_comp_frequency(sd).insufficient_data
                        = comp_frequency.insufficient_data
                /\ C12_Entries(analyze_opening_duels(sd)) = C12_Entries(opening_duels)
                /\ Len(analyze_opening_duels(sd)) = Len(opening_duels)
                /\ C12_ByNetDescending(analyze_opening_duels(sd))

\* two series whose exchange changes the key order of the site view and of the
\* composition view and the order of two players of equal net, with a map that
\* has plants on two sites from different series
C12_Witness ==
    /\ pc = "report"
    /\ Len(series_data) = 2
    /\ LET sd == C12_Permuted(series_data, <<2, 1>>)
       IN  /\ analyze_plant_sites(sd) # plant_sites
           /\ analyze_comp_frequency(sd).by_map # comp_frequency.by_map
           /\ analyze_opening_duels(sd) # opening_duels
    /\ \E i \in 1..Len(plant_sites) :
        /\ Cardinality(DOMAIN plant_sites[i].counts) = 2
        /\ \A n \in 1..2 : \E k \in 1..Len(series_data[n].events.spike_plants) :
                series_data[n].events.spike_plants[k].map = plant_sites[i].map

\* the report has been rendered
ReportReady == pc = "done"

StartsWith(line, prefix) ==
    Len(line) >= Len(prefix) /\ SubSeq(line, 1, Len(prefix)) = prefix

\* a line "## ..."
IsHeading(line) == StartsWith(line, <<"#", "#", " ">>)

\* a line in italics: "*...*", not "**...**"
IsPlaceholder(line) ==
    /\ Len(line) >= 3
    /\ line[1] = "*" /\ line[2] # "*"
    /\ line[Len(line)] = "*" /\ line[Len(line) - 1] # "*"

Headings == SelectSeq(markdown_report, IsHeading)

\* the line of the k-th heading of the report
HeadingPos(k) ==
    CHOOSE i \in 1..Len(markdown_report) :
        /\ IsHeading(markdown_report[i])
        /\ Cardinality({j \in 1..i : IsHeading(markdown_report[j])}) = k

\* the lines of the k-th section, after its heading
SectionBody(k) ==
    SubSeq(markdown_report, HeadingPos(k) + 1,
           IF k < Len(Headings) THEN HeadingPos(k + 1) - 1 ELSE Len(markdown_report))

C13_SectionTitles ==
    <<R_MapPool, R_AttackSites, R_PlantSites, R_OpeningDuels, R_Comps, R_Summary>>

\* the k-th section has no data to show
C13_NoData(k) ==
    CASE k = 1 -> DOMAIN maps_played.maps = {}
      [] k = 2 -> Len(attack_site_preference) = 0
      [] k = 3 -> Len(plant_sites) = 0
      [] k = 4 -> Len(opening_duels) = 0
      [] k = 5 -> comp_frequency.insufficient_data \/ Len(comp_frequency.by_map) = 0
      [] k = 6 -> /\ DOMAIN maps_played.maps = {}
                  /\ Len(attack_site_preference) = 0
                  /\ Len(opening_duels) = 0

\* C13: the report has the six sections Map Pool, Attack Site Preference,
\* Spike Plant Sites, Opening Duel Leaders, Agent Compositions and Key
\* Takeaways, each once and in this order, and every section without data
\* (Agent Compositions with insufficient_data set, Key Takeaways with no
\* takeaway) holds an italic placeholder line.
C13_EverySectionHasPlaceholder ==
    ReportReady =>
        /\ Headings = C13_SectionTitles
        /\ \A k \in 1..6 :
            C13_NoData(k) =>
                \E i \in 1..Len(SectionBody(k)) : IsPlaceholder(SectionBody(k)[i])

\* the map of the attack-site view that is first by name
C14_FirstByName ==
    CHOOSE i \in 1..Len(attack_site_preference) :
        \A j \in 1..Len(attack_site_preference) :
            j # i => TextLess(attack_site_preference[i].map.s,
                              attack_site_preference[j].map.s)

\* C14: in Key Takeaways the "Primary site" line names the map of the
\* attack-site view that is first by name (the map that heads the Attack Site
\* Preference section), in whatever order the maps entered the view, and a most
\* frequent site of it; the most-played-map line is there exactly when the map
\* pool is not empty; the strongest-duel-player line is there exactly when the
\* duel table is not empty, and names its first row with the signed net.
C14_PrimarySiteOfFirstMapByName ==
    ReportReady =>
        LET body == SectionBody(6)
            lines == {body[i] : i \in 1..Len(body)}
        IN  /\ Len(attack_site_preference) > 0 =>
                LET entry == attack_site_preference[C14_FirstByName]
                IN  /\ SectionBody(2)[2] = R_Sub \o Str(entry.map)
                    /\ DOMAIN entry.counts # {} =>
                        \E site \in DOMAIN entry.counts :
                            /\ \A t \in DOMAIN entry.counts :
                                    entry.counts[t] <= entry.counts[site]
                            /\ R_PrimarySite \o Str(entry.map) \o R_PrimarySiteEnd
                                    \o Str(site) \in lines
            /\ (\E line \in lines : StartsWith(line, R_MostPlayed))
                    <=> DOMAIN maps_played.maps # {}
            /\ (\E line \in lines : StartsWith(line, R_Strongest))
                    <=> Len(opening_duels) > 0
            /\ Len(opening_duels) > 0 =>
                    R_Strongest \o Str(opening_duels[1].player) \o R_Net
                        \o (IF opening_duels[1].net < 0 THEN <<"-">> ELSE <<"+">>)
                        \o Dec(Abs(opening_duels[1].net)) \o <<")">> \in lines

\* a table row "| ..." (the rule under the header is "|-...")
C15_IsRow(line) == StartsWith(line, <<"|", " ">>)

\* the row of a player: the net with its sign
C15_DuelRow(row) ==
    <<"|", " ">> \o Str(row.player)
        \o <<" ", "|", " ">> \o Dec(row.first_kills)
        \o <<" ", "|", " ">> \o Dec(row.first_deaths)
        \o <<" ", "|", " ">> \o (IF row.net < 0 THEN <<"-">> ELSE <<"+">>)
        \o Dec(Abs(row.net)) \o <<" ", "|">>

\* the line of a composition: "- **name** (Nx)"
C15_CompRow(name, count) ==
    <<"-", " ", "*", "*">> \o name.s \o <<"*", "*", " ", "(">> \o Dec(count) \o <<"x", ")">>

\* the lines of the subsection of a map in Agent Compositions, from the line
\* after the blank line under its title to the next blank line
C15_CompLines(map) ==
    LET body == SectionBody(5)
        h == CHOOSE i \in 1..Len(body) : body[i] = R_Sub \o Str(map)
        e == CHOOSE j \in (h + 2)..Len(body) :
                body[j] = <<>> /\ \A x \in (h + 2)..(j - 1) : body[x] # <<>>
    IN  SubSeq(body, h + 2, e - 1)

\* C15: for a duel table of n players Opening Duel Leaders has min(10, n)
\* player rows, the first 10 entries of the table in table order (no entry left
\* out has a higher net), each net with its sign; Agent Compositions lists for
\* each map min(5, number of compositions) compositions as "name (Nx)", each
\* once, none left out having a higher count.
C15_TopRowsOnly ==
    ReportReady =>
        /\ LET n == Len(opening_duels)
               shown == IF n < 10 THEN n ELSE 10
           IN  /\ SelectSeq(SectionBody(4), C15_IsRow) =
                    (IF n = 0 THEN <<>>
                     ELSE <<R_OpeningDuelsHead>>
                            \o [i \in 1..shown |-> C15_DuelRow(opening_duels[i])])
               /\ \A i \in 1..shown : \A j \in (shown + 1)..n :
                    opening_duels[i].net >= opening_duels[j].net
        /\ ~comp_frequency.insufficient_data =>
            \A m \in 1..Len(comp_frequency.by_map) :
                LET entry == comp_frequency.by_map[m]
                    names == DOMAIN entry.compositions
                    lines == C15_CompLines(entry.map)
                    listed == {c \in names :
                                \E i \in 1..Len(lines) :
                                    lines[i] = C15_CompRow(c, entry.compositions[c])}
                IN  /\ Len(lines) =
                        (IF Cardinality(names) < 5 THEN Cardinality(names) ELSE 5)
                    /\ Cardinality(listed) = Len(lines)
                    /\ \A c \in listed : \A u \in names \ listed :
                            entry.compositions[c] >= entry.compositions[u]

\* a report of a table of more than 10 players, with a negative net among the
\* rows shown, and of a map with more than 5 compositions of differing counts
C15_Witness ==
    /\ ReportReady
    /\ Len(opening_duels) > 10
    /\ opening_duels[10].net < 0
    /\ \E m \in 1..Len(comp_frequency.by_map) :
        LET counts == comp_frequency.by_map[m].compositions
        IN  /\ Cardinality(DOMAIN counts) > 5
            /\ \E c, u \in DOMAIN counts : counts[c] > counts[u]

\* ------------------------------------------------------------------ C16

\* the document with its players in the order p
C16_Permuted(doc, p) ==
    JObj([doc.f EXCEPT !.players = JList([i \in 1..Len(@.l) |-> @.l[p[i]]])])

\* the teams of an end-state with their signatures
C16_Signatures(es) ==
    {<<es.comps[i].key, CompSignature(es.comps[i].vals)>> : i \in 1..Len(es.comps)}

\* the text t, k times
RECURSIVE C16_Repeat(_, _)
C16_Repeat(t, k) == IF k = 0 THEN <<>> ELSE <<t>> \o C16_Repeat(t, k - 1)

\* the names of a multiset of agents in lexicographic order, each as many
\* times as the multiset holds it
RECURSIVE C16_SortedNames(_, _)
C16_SortedNames(names, agents) ==
    IF names = {} THEN <<>>
    ELSE LET m == CHOOSE x \in names : \A y \in names : ~TextLess(y, x)
         IN  C16_Repeat(m, Cardinality({i \in 1..Len(agents) : agents[i].s = m}))
                \o C16_SortedNames(names \ {m}, agents)

C16_SignatureOfMultiset(agents) ==
    JS(Join(<<"+">>, C16_SortedNames({agents[i].s : i \in 1..Len(agents)}, agents)))

\* the map a map entry is counted under
C16_MapOf(map_info) == IF IsDict(map_info) THEN get(map_info, "name", JNull) ELSE map_info

\* the pairs (map entry of a match, team of that match with an agent), as
\* (series, position of the map entry, position of the team)
C16_Pairs(sd) ==
    {t \in UNION {{n} \X (1..Len(sd[n].end_state.maps)) \X (1..Len(sd[n].end_state.comps)) :
                    n \in 1..Len(sd)} :
        Len(sd[t[1]].end_state.comps[t[3]].vals) > 0}

C16_PairMap(sd, t) == C16_MapOf(sd[t[1]].end_state.maps[t[2]])

C16_PairSignature(sd, t) == C16_SignatureOfMultiset(sd[t[1]].end_state.comps[t[3]].vals)

C16_HasPlayers(es) ==
    /\ "raw_data" \in DOMAIN es
    /\ IsDict(es.raw_data)
    /\ "players" \in DOMAIN es.raw_data.f
    /\ es.raw_data.f.players.k = "list"

\* C16: permuting the players of an end-state document leaves every team's
\* signature unchanged, the signature being the team's agent names in
\* lexicographic order joined with "+", duplicates kept; and in the composition
\* view a map's count of a signature is the number of pairs (map entry of a
\* match, team of that match with at least one agent) of that map and
\* signature, a map's total the number of its pairs.  Stated of the views as
\* the reducers return them, before the report is rendered.
C16_SignatureOfMultisetCountedPerPair ==
    pc = "report" =>
        /\ \A n \in 1..Len(series_data) :
            LET es == series_data[n].end_state
            IN  C16_HasPlayers(es) =>
                  /\ \A p \in C12_Perms(Len(es.raw_data.f.players.l)) :
                        C16_Signatures(parse_end_state(C16_Permuted(es.raw_data, p)))
                            = C16_Signatures(es)
                  /\ \A i \in 1..Len(es.comps) :
                        CompSignature(es.comps[i].vals)
                            = C16_SignatureOfMultiset(es.comps[i].vals)
        /\ LET pairs == C16_Pairs(series_data)
                by_map == comp_frequency.by_map
           IN  /\ \A t \in pairs : \E i \in 1..Len(by_map) :
                        /\ by_map[i].map = C16_PairMap(series_data, t)
                        /\ C16_PairSignature(series_data, t) \in DOMAIN by_map[i].compositions
               /\ \A i \in 1..Len(by_map) :
                    /\ \A j \in 1..Len(by_map) : by_map[j].map = by_map[i].map => j = i
                    /\ by_map[i].total =
                          Cardinality({t \in pairs :
                                C16_PairMap(series_data, t) = by_map[i].map})
                    /\ \A sig \in DOMAIN by_map[i].compositions :
                          by_map[i].compositions[sig] =
                            Cardinality({t \in pairs :
                                /\ C16_PairMap(series_data, t) = by_map[i].map
                                /\ C16_PairSignature(series_data, t) = sig})

\* two matches were analysed, one with a team whose agents the document lists
\* out of order and twice, and a map is counted for three pairs or more
C16_Witness ==
    /\ pc = "report"
    /\ Len(series_data) = 2
    /\ \E n \in 1..Len(series_data) : \E i \in 1..Len(series_data[n].end_state.comps) :
        LET agents == series_data[n].end_state.comps[i].vals
        IN  /\ CompSignature(agents) # JS(JoinPlus(agents))
            /\ \E a, b \in 1..Len(agents) : a # b /\ agents[a] = agents[b]
    /\ \E i \in 1..Len(comp_frequency.by_map) :
        /\ comp_frequency.by_map[i].total >= 3
        /\ Cardinality(DOMAIN comp_frequency.by_map[i].compositions) >= 2

\* ------------------------------------------------------------------ C17

\* C17: every map of the composition view is a map of the map pool: each key
\* of by_map returned by analyze_comp_frequency is a key of maps returned by
\* analyze_maps_played on the same bundles.
C17_CompMapsAreInMapPool ==
    CompsReady =>
        \A i \in 1..Len(comp_frequency.by_map) :
            comp_frequency.by_map[i].map \in DOMAIN maps_played.maps

\* ------------------------------------------------------------ C18 .. C20

\* the calls of a request that are for its n-th series
C18_SeriesCalls(n) ==
    LET OfSeries(c) == c.series = n
    IN  SelectSeq(calls, OfSeries)

\* the steps of the processing of one series
C18_StepOps ==
    <<"list_files", "download_events_zip", "download_end_state", "parse_events",
      "parse_end_state", "append">>

\* the reducers and the rendering
C18_RequestOps ==
    {"analyze_maps_played", "analyze_attack_site_preference", "analyze_plant_sites",
     "analyze_opening_duels", "analyze_comp_frequency", "generate_markdown_report"}

C18_NotBlank(c) == c # " "

\* a step of a series has raised
C18_Raised == \E i \in 1..Len(calls) : calls[i].series > 0 /\ ~calls[i].ok

\* C18: the request is fail-fast and all-or-nothing.  The series are processed
\* one at a time in the order of series_ids; a step of a series that raises is
\* the last thing the request does: the answer is the 500 error naming that
\* series, no later series is fetched or parsed, no reducer and no rendering
\* runs and no partial result is returned; a successful answer covers every
\* requested series, series_analyzed being the requested ids in order.
C18_FailFastAllOrNothing ==
    /\ \A i, j \in 1..Len(calls) :
            (i < j /\ calls[i].series > 0) =>
                /\ calls[j].series = 0 \/ calls[i].series <= calls[j].series
                /\ calls[i].series < calls[j].series =>
                        \E h \in i..(j - 1) :
                            calls[h] = Call("append", calls[i].series, TRUE)
    /\ \A n \in 1..Len(series_data) : series_data[n].series_id = series_ids[n]
    /\ \A i \in 1..Len(calls) :
            (calls[i].series > 0 /\ ~calls[i].ok) =>
                /\ i = Len(calls)
                /\ pc = "error"
                /\ response.status_code = 500
                /\ DOMAIN response = {"status_code", "detail"}
                /\ StartsWith(response.detail,
                              M_ErrorProcessing \o series_ids[calls[i].series] \o M_Colon)
                /\ Len(series_data) = calls[i].series - 1
                /\ \A h \in 1..Len(calls) :
                        /\ calls[h].series <= calls[i].series
                        /\ calls[h].op \notin C18_RequestOps
                /\ pc \notin {"report", "done"}
                /\ markdown_report = NoReport
    /\ response.status_code = 200 =>
                /\ ~C18_Raised
                /\ response.series_analyzed = series_ids
                /\ Join(<<",">>, response.series_analyzed)
                        = SelectSeq(query.series_ids.s, C18_NotBlank)
                /\ Len(series_data) = Len(series_ids)
                /\ \A n \in 1..Len(series_ids) :
                        /\ series_data[n].series_id = series_ids[n]
                        /\ Len(C18_SeriesCalls(n)) = Len(C18_StepOps)
                        /\ \A i \in 1..Len(C18_StepOps) :
                                C18_SeriesCalls(n)[i] = Call(C18_StepOps[i], n, TRUE)

\* the download of the end-state of the second series has raised after the
\* first series was processed, and another series was still to come or the
\* second was the last
C18_Witness ==
    /\ pc = "error"
    /\ Len(series_ids) >= 2
    /\ Len(series_data) = 1
    /\ calls[Len(calls)] = Call("download_end_state", 2, FALSE)
    /\ response.status_code = 500

\* C19: the steps of one series occur in the order list files, download and
\* extract events, download end-state, parse events, parse end-state, append:
\* a parse of a series is never called before both of its downloads have
\* returned, and its bundle is appended only after both parses have returned.
C19_StepsInOrder ==
    /\ \A n \in 1..Len(series_ids) :
        LET q == C18_SeriesCalls(n)
        IN  /\ Len(q) <= Len(C18_StepOps)
            /\ \A i \in 1..Len(q) :
                    /\ q[i].op = C18_StepOps[i]
                    /\ i < Len(q) => q[i].ok
    /\ \A n \in 1..Len(series_data) :
            C18_SeriesCalls(n)[Len(C18_StepOps)] = Call("append", n, TRUE)
    /\ pc \in {"parse_events", "parse_end_state", "append"} =>
            /\ Call("download_events_zip", Len(series_data) + 1, TRUE)
                    \in {calls[i] : i \in 1..Len(calls)}
            /\ Call("download_end_state", Len(series_data) + 1, TRUE)
                    \in {calls[i] : i \in 1..Len(calls)}
    /\ pc = "append" =>
            /\ calls[Len(calls)] = Call("parse_end_state", Len(series_data) + 1, TRUE)
            /\ calls[Len(calls) - 1] = Call("parse_events", Len(series_data) + 1, TRUE)

\* the bundle of a second series is about to be appended, its events having
\* been downloaded and parsed
C19_Witness ==
    /\ pc = "append"
    /\ Len(series_data) = 1
    /\ Len(cache.files) > 0
    /\ cache.doc # AbsentDoc
    /\ Len(calls) = 2 * Len(C18_StepOps) - 1

\* the steps that retrieve, parse, aggregate or render
C20_Steps == {C18_StepOps[i] : i \in 1..Len(C18_StepOps)} \cup C18_RequestOps

\* C20: the mode of a request is selected before anything is retrieved.  A
\* request with team_id and without series_ids ends with the 501 answer, one
\* with neither with the 400 answer, and in both no listing, download, parse,
\* aggregation or rendering step is made; a request with series_ids is served
\* by them, whatever its team_id.
C20_ModeBeforeRetrieval ==
    /\ pc = "select_mode" => calls = <<>> /\ response = NoResponse
    /\ (pc # "select_mode" /\ ~Truthy(query.series_ids)) =>
            /\ pc = "error"
            /\ response.status_code = IF Truthy(query.team_id) THEN 501 ELSE 400
            /\ \A i \in 1..Len(calls) : calls[i].op \notin C20_Steps
            /\ series_data = <<>>
            /\ markdown_report = NoReport
    /\ (pc # "select_mode" /\ Truthy(query.series_ids)) =>
            /\ response.status_code \notin {400, 501}
            /\ \A i \in 1..Len(calls) : calls[i].op # "get_series_ids_for_team"
            /\ series_ids = [i \in 1..Len(Split(query.series_ids.s, ",")) |->
                                Strip(Split(query.series_ids.s, ",")[i])]
            /\ Len(series_ids) >= 1

\* a request with both parameters has been answered from its series_ids
C20_Witness ==
    /\ pc = "done"
    /\ Truthy(query.team_id)
    /\ Truthy(query.series_ids)
    /\ response.status_code = 200
    /\ Len(response.series_analyzed) = 2

====
